---------------------------- MODULE Spec2Model ----------------------------
(***************************************************************************)
(* A model of gretl's AI assistant: the GUI side (src/gui/ai_assistant.c:  *)
(* micro-JSON reader, reply model, tool executor, agent loop, request      *)
(* scheduler) and the provider invoker it calls (src/lib/src/gretl_llm.c). *)
(*                                                                         *)
(* C strings are TLA+ strings.  A pointer into a string s is a 1-based     *)
(* index i; index Len(s)+1 is the terminating NUL, read as "".  A char*    *)
(* that may be NULL is a sequence of length 0 (NULL) or 1 (<<s>>).  A NULL *)
(* position is 0.                                                          *)
(*                                                                         *)
(* A world w is what one call of the invoker meets outside the program:    *)
(* w.host (the environment variables, the executable files, the search     *)
(* path), w.tmp and w.tmpname (g_file_open_tmp), w.spawn and w.gerr        *)
(* (g_spawn_sync), w.exit, w.stdout, w.stderr (the child), and w.file (the *)
(* output file codex leaves).  The result of a call is the record [err,    *)
(* reply, errmsg] with what the call did: argv, tmp_made, tmp_left.        *)
(*                                                                         *)
(* Specifications: Spec (the request scheduler), SpecLive (the same with   *)
(* its threads scheduled), SpecJob (one job's agent loop), SpecTools,      *)
(* SpecTail and SpecDecode (the decoder and the tool executor on replies   *)
(* drawn at the start), SpecReader (the reader's functions on texts drawn  *)
(* at the start), SpecLLM (the invoker's entry points on calls drawn at    *)
(* the start, beside the Ask button), SpecGemini (the same on what gemini  *)
(* prints), SpecField (the invoker's field extraction on objects drawn at  *)
(* the start).                                                             *)
(***************************************************************************)
EXTENDS Integers, Sequences, FiniteSets, TLC

-----------------------------------------------------------------------------
(* Text helpers *)

NULL == <<>>

Some(s) == <<s>>

IsNull(p) == p = <<>>

\* *p for the pointer s + (i - 1); "" is the terminating NUL
At(s, i) == IF i >= 1 /\ i <= Len(s) THEN SubSeq(s, i, i) ELSE ""

\* the C string starting at s + (i - 1)
From(s, i) == IF i <= Len(s) THEN SubSeq(s, i, Len(s)) ELSE ""

\* g_ascii_isspace (the vertical tab has no TLA+ literal)
IsSpace(c) == c \in {" ", "\t", "\n", "\r", "\f"}

IsDigit(c) == c \in {"0", "1", "2", "3", "4", "5", "6", "7", "8", "9"}

\* g_ascii_isxdigit
IsXDigit(c) == IsDigit(c) \/ c \in {"a", "b", "c", "d", "e", "f",
                                     "A", "B", "C", "D", "E", "F"}

RECURSIVE IndexIn(_, _, _)
\* the least i >= from with At(tbl, i) = c, 0 when there is none
IndexIn(tbl, c, from) ==
    IF from > Len(tbl) THEN 0
    ELSE IF SubSeq(tbl, from, from) = c THEN from
    ELSE IndexIn(tbl, c, from + 1)

\* g_ascii_xdigit_value
XDigitValue(c) ==
    IF IsDigit(c) THEN IndexIn("0123456789", c, 1) - 1
    ELSE IF c \in {"a", "b", "c", "d", "e", "f"} THEN 9 + IndexIn("abcdef", c, 1)
    ELSE 9 + IndexIn("ABCDEF", c, 1)

\* the character with byte value n, for the byte values a TLA+ string literal
\* can spell: the printable ASCII range without the backquote, and \t \n \f \r
Chr(n) ==
    CASE n \in 32..95  -> SubSeq(" !\"#$%&'()*+,-./0123456789:;<=>?@ABCDEFGHIJKLMNOPQRSTUVWXYZ[\\]^_", n - 31, n - 31)
      [] n \in 97..126 -> SubSeq("abcdefghijklmnopqrstuvwxyz{|}~", n - 96, n - 96)
      [] n = 9  -> "\t"
      [] n = 10 -> "\n"
      [] n = 12 -> "\f"
      [] n = 13 -> "\r"

\* the last character of a non-empty string
LastChar(s) == At(s, Len(s))

\* v bound to a value computed once: Body(v)
With(v, Body(_)) == Body(v)

RECURSIVE Run(_, _, _)
\* at most k passes of a loop whose body is Step, from the state st, ending
\* at the first state marked done (a record field); the passes are split in
\* halves so that a long loop stays a shallow evaluation
Run(Step(_), st, k) ==
    IF st.done THEN st
    ELSE IF k = 1 THEN Step(st)
    ELSE Run(Step, Run(Step, st, k \div 2), k - (k \div 2))

RECURSIVE Grow(_, _, _)
\* the loop run k passes, then 2k, then 4k, until it is done
Grow(Step(_), st, k) ==
    IF st.done THEN st ELSE Grow(Step, Run(Step, st, k), 2 * k)

\* the C loop whose body is Step, run from the state st to its end
Loop(Step(_), st) == Grow(Step, st, 1)

\* one pass of the search of strstr
strstr_step(s, pat, st) ==
    IF st.i + Len(pat) - 1 > Len(s) THEN [i |-> 0, done |-> TRUE]
    ELSE IF SubSeq(s, st.i, st.i + Len(pat) - 1) = pat
         THEN [i |-> st.i, done |-> TRUE]
    ELSE [i |-> st.i + 1, done |-> FALSE]

\* strstr(s + (from - 1), pat): the first occurrence at or after from, else 0
strstr(s, pat, from) ==
    Loop(LAMBDA st : strstr_step(s, pat, st), [i |-> from, done |-> FALSE]).i

-----------------------------------------------------------------------------
(* Micro-JSON reader (src/gui/ai_assistant.c) *)

\* one pass of the while loop of json_skip_ws
json_skip_ws_step(s, st) ==
    IF At(s, st.p) # "" /\ IsSpace(At(s, st.p))
    THEN [p |-> st.p + 1, done |-> FALSE]
    ELSE [p |-> st.p, done |-> TRUE]

json_skip_ws(s, p0) ==
    Loop(LAMBDA st : json_skip_ws_step(s, st), [p |-> p0, done |-> FALSE]).p

\* the state of the loop of json_parse_string after one more character
parse_string_next(p, esc, gs) ==
    [p |-> p, esc |-> esc, gs |-> gs, ok |-> FALSE, done |-> FALSE]

\* the \uXXXX case of json_parse_string, q the position after the u
parse_string_unicode(s, q, gs) ==
    IF IsXDigit(At(s, q)) /\ IsXDigit(At(s, q + 1)) /\
       IsXDigit(At(s, q + 2)) /\ IsXDigit(At(s, q + 3))
    THEN IF At(s, q) = "0" /\ At(s, q + 1) = "0"
         THEN parse_string_next(q + 4, FALSE,
                  gs \o Chr(16 * XDigitValue(At(s, q + 2)) + XDigitValue(At(s, q + 3))))
         ELSE parse_string_next(q + 4, FALSE, gs \o "?")
    ELSE parse_string_next(q, FALSE, gs \o "?")

\* one pass of the while loop of json_parse_string on the character c at
\* st.p: p is the read position, gs the decoded text so far, ok whether the
\* closing quote was met
json_parse_string_char(s, st, c, q) ==
    IF c = "" THEN [st EXCEPT !.done = TRUE]
    ELSE IF st.esc THEN
        CASE c = "\"" -> parse_string_next(q, FALSE, st.gs \o "\"")
          [] c = "\\" -> parse_string_next(q, FALSE, st.gs \o "\\")
          [] c = "/"  -> parse_string_next(q, FALSE, st.gs \o "/")
          [] c = "b"  -> parse_string_next(q, FALSE, st.gs \o Chr(8))
          [] c = "f"  -> parse_string_next(q, FALSE, st.gs \o "\f")
          [] c = "n"  -> parse_string_next(q, FALSE, st.gs \o "\n")
          [] c = "r"  -> parse_string_next(q, FALSE, st.gs \o "\r")
          [] c = "t"  -> parse_string_next(q, FALSE, st.gs \o "\t")
          [] c = "u"  -> parse_string_unicode(s, q, st.gs)
          [] OTHER -> parse_string_next(q, FALSE, st.gs \o c)
    ELSE IF c = "\\" THEN parse_string_next(q, TRUE, st.gs)
    ELSE IF c = "\"" THEN [p |-> q, esc |-> FALSE, gs |-> st.gs, ok |-> TRUE, done |-> TRUE]
    ELSE parse_string_next(q, FALSE, st.gs \o c)

json_parse_string_step(s, st) == json_parse_string_char(s, st, At(s, st.p), st.p + 1)

\* what json_parse_string returns after its loop ended in the state r
json_parse_string_result_lax(r) == [ok |-> TRUE, p |-> r.p, out |-> r.gs]

json_parse_string_result(r) ==
    IF r.ok THEN [ok |-> TRUE, p |-> r.p, out |-> r.gs]
    ELSE [ok |-> FALSE, p |-> 0, out |-> ""]

\* json_parse_string for the position p after the leading whitespace
json_parse_string_at(s, p) ==
    IF At(s, p) # "\"" THEN [ok |-> FALSE, p |-> 0, out |-> ""]
    ELSE json_parse_string_result(
             Loop(LAMBDA st : json_parse_string_step(s, st),
                  [p |-> p + 1, esc |-> FALSE, gs |-> "", ok |-> FALSE, done |-> FALSE]))

\* json_parse_string(&p, &out) on the text s read from position p0:
\* [ok, p, out]; on failure *pp and *out are left alone
json_parse_string(s, p0) == json_parse_string_at(s, json_skip_ws(s, p0))

RECURSIVE DigitsEnd(_, _)
\* the position just past the run of decimal digits starting at p
DigitsEnd(s, p) == IF IsDigit(At(s, p)) THEN DigitsEnd(s, p + 1) ELSE p

RECURSIVE DigitsValue(_, _, _, _)
\* the value of the decimal digits from p up to e
DigitsValue(s, p, e, acc) ==
    IF p >= e THEN acc
    ELSE DigitsValue(s, p + 1, e, 10 * acc + XDigitValue(At(s, p)))

\* strtol(p, &endp, 10) at the position p after the whitespace, the digits
\* starting at d and ending before e
json_parse_int_digits(s, p, d, e) ==
    IF At(s, p) = "" \/ e = d THEN [ok |-> FALSE, p |-> 0, out |-> 0]
    ELSE [ok |-> TRUE, p |-> e,
          out |-> IF At(s, p) = "-" THEN 0 - DigitsValue(s, d, e, 0)
                  ELSE DigitsValue(s, d, e, 0)]

json_parse_int_at(s, p, d) == json_parse_int_digits(s, p, d, DigitsEnd(s, d))

\* json_parse_int(&p, &out): strtol(p, &endp, 10) after json_skip_ws, for
\* values that fit an int.  [ok, p, out]
json_parse_int(s, p0) ==
    With(json_skip_ws(s, p0),
         LAMBDA p : json_parse_int_at(s, p, IF At(s, p) \in {"+", "-"} THEN p + 1 ELSE p))

\* the state of the loop of json_match_closing after one more character
match_closing_next(st, depth, in_str, esc) ==
    [p |-> st.p + 1, depth |-> depth, in_str |-> in_str, esc |-> esc,
     ret |-> 0, done |-> FALSE]

\* one pass of the for loop of json_match_closing on the character c at
\* st.p; ret is the value returned
json_match_closing_char_unquoted(open, close, st, c) ==
    IF c = "" THEN [st EXCEPT !.done = TRUE]
    ELSE IF c = open THEN match_closing_next(st, st.depth + 1, FALSE, st.esc)
    ELSE IF c = close THEN
        IF st.depth - 1 = 0 THEN [st EXCEPT !.ret = st.p, !.done = TRUE]
        ELSE match_closing_next(st, st.depth - 1, FALSE, st.esc)
    ELSE match_closing_next(st, st.depth, FALSE, st.esc)

json_match_closing_char(open, close, st, c) ==
    IF c = "" THEN [st EXCEPT !.done = TRUE]
    ELSE IF st.in_str THEN
        IF st.esc THEN match_closing_next(st, st.depth, TRUE, FALSE)
        ELSE IF c = "\\" THEN match_closing_next(st, st.depth, TRUE, TRUE)
        ELSE IF c = "\"" THEN match_closing_next(st, st.depth, FALSE, st.esc)
        ELSE match_closing_next(st, st.depth, TRUE, st.esc)
    ELSE IF c = "\"" THEN match_closing_next(st, st.depth, TRUE, st.esc)
    ELSE IF c = open THEN match_closing_next(st, st.depth + 1, FALSE, st.esc)
    ELSE IF c = close THEN
        IF st.depth - 1 = 0 THEN [st EXCEPT !.ret = st.p, !.done = TRUE]
        ELSE match_closing_next(st, st.depth - 1, FALSE, st.esc)
    ELSE match_closing_next(st, st.depth, FALSE, st.esc)

json_match_closing_step(s, open, close, st) ==
    json_match_closing_char(open, close, st, At(s, st.p))

\* the position of the delimiter closing the one at p, 0 (NULL) when none
json_match_closing(s, p, open, close) ==
    IF p = 0 \/ At(s, p) # open THEN 0
    ELSE Loop(LAMBDA st : json_match_closing_step(s, open, close, st),
              [p |-> p, depth |-> 0, in_str |-> FALSE, esc |-> FALSE,
               ret |-> 0, done |-> FALSE]).ret

\* the test of the colon after the occurrence hit of pat, q the position
\* after the whitespace that follows it
json_find_field_colon(json, hit, q) ==
    IF At(json, q) = ":"
    THEN [p |-> hit, ret |-> json_skip_ws(json, q + 1), done |-> TRUE]
    ELSE [p |-> hit + 1, ret |-> 0, done |-> FALSE]

\* the body of the loop for the occurrence hit of pat (0 when none)
json_find_field_hit(json, pat, hit) ==
    IF hit = 0 THEN [p |-> 0, ret |-> 0, done |-> TRUE]
    ELSE json_find_field_colon(json, hit, json_skip_ws(json, hit + Len(pat)))

\* one pass of the while ((p = strstr(p, pat)) != NULL) loop
json_find_field_step(json, pat, st) ==
    json_find_field_hit(json, pat, strstr(json, pat, st.p))

\* the search for the pattern pat, the quoted field name
json_find_field_pat(json, pat) ==
    Loop(LAMBDA st : json_find_field_step(json, pat, st),
         [p |-> 1, ret |-> 0, done |-> FALSE]).ret

\* the position just past "field" : and the whitespace after it, 0 when
\* the text holds no such field
json_find_field_value_start(json, field) ==
    json_find_field_pat(json, "\"" \o field \o "\"")

\* *out after json_parse_string returned r
extract_string_result(r, prev) == IF ~r.ok THEN prev ELSE Some(r.out)

\* json_extract_string_field with the value starting at p (0 when absent)
json_extract_string_at(json, p, prev) ==
    IF p = 0 THEN prev
    ELSE extract_string_result(json_parse_string(json, p), prev)

\* json_extract_string_field(json, field, &out): the new value of *out,
\* which is left as it was (prev) when the field is absent or no string
json_extract_string_field(json, field, prev) ==
    json_extract_string_at(json, json_find_field_value_start(json, field), prev)

\* the span from p to the closing delimiter at q (0 when none)
extract_span_result(p, q) ==
    IF q = 0 THEN [ok |-> FALSE, start |-> 0, end |-> 0]
    ELSE [ok |-> TRUE, start |-> p, end |-> q]

\* the span whose opening delimiter is looked for at p
json_extract_span_at(json, p, open, close) ==
    IF At(json, p) # open THEN [ok |-> FALSE, start |-> 0, end |-> 0]
    ELSE extract_span_result(p, json_match_closing(json, p, open, close))

\* the span of the value starting at p0 (0 when the field is absent)
json_extract_span_from(json, p0, open, close) ==
    IF p0 = 0 THEN [ok |-> FALSE, start |-> 0, end |-> 0]
    ELSE json_extract_span_at(json, json_skip_ws(json, p0), open, close)

\* json_extract_object_span / json_extract_array_span: [ok, start, end]
json_extract_span(json, field, open, close) ==
    json_extract_span_from(json, json_find_field_value_start(json, field), open, close)

json_extract_object_span(json, field) == json_extract_span(json, field, "{", "}")

json_extract_array_span(json, field) == json_extract_span(json, field, "[", "]")

-----------------------------------------------------------------------------
(* Reply model (src/gui/ai_assistant.c) *)

\* tc->n_lines as set by parse_llm_json_reply before the args are read
DefaultNLines == 50

\* tc->n_lines after json_parse_int read the value at vp (0 when absent)
parse_n_lines_result(iv) == IF iv.ok THEN iv.out ELSE DefaultNLines

parse_n_lines_at(args, vp) ==
    IF vp = 0 THEN DefaultNLines ELSE parse_n_lines_result(json_parse_int(args, vp))

\* the fields read from the text args of the args object
parse_tool_args(name, args) ==
    [name    |-> name,
     n_lines |-> IF name = "get_command_log_tail"
                 THEN parse_n_lines_at(args, json_find_field_value_start(args, "n_lines"))
                 ELSE DefaultNLines,
     style   |-> IF name = "get_last_model_summary"
                 THEN json_extract_string_field(args, "style", NULL)
                 ELSE NULL]

\* the tool call given the span of its args object
parse_tool_call_span(obj, name, span) ==
    IF span.ok THEN parse_tool_args(name, SubSeq(obj, span.start, span.end))
    ELSE [name |-> name, n_lines |-> DefaultNLines, style |-> NULL]

\* the tool call of the JSON object obj, whose name was read
parse_tool_call(obj, name) ==
    parse_tool_call_span(obj, name, json_extract_object_span(obj, "args"))

\* the end of one pass: name is NULL, or the name read from obj
parse_tool_calls_named(st, obj, obj_end, name) ==
    IF IsNull(name) THEN [st EXCEPT !.p = obj_end + 1]
    ELSE [st EXCEPT !.p = obj_end + 1,
                    !.calls = Append(st.calls, parse_tool_call(obj, name[1]))]

\* the object from p to obj_end
parse_tool_calls_obj(st, obj, obj_end) ==
    parse_tool_calls_named(st, obj, obj_end, json_extract_string_field(obj, "name", NULL))

\* the pass for an opening brace at p with its closing brace at obj_end
parse_tool_calls_closed(json, aend, st, p, obj_end) ==
    IF obj_end = 0 \/ obj_end > aend THEN [st EXCEPT !.done = TRUE]
    ELSE parse_tool_calls_obj(st, SubSeq(json, p, obj_end), obj_end)

\* the pass at the position p after the whitespace
parse_tool_calls_at(json, aend, st, p) ==
    IF At(json, p) = "," THEN [st EXCEPT !.p = p + 1]
    ELSE IF At(json, p) # "{" THEN [st EXCEPT !.done = TRUE]
    ELSE parse_tool_calls_closed(json, aend, st, p, json_match_closing(json, p, "{", "}"))

\* one pass of the while (p < aend) loop of parse_llm_json_reply
parse_tool_calls_step(json, aend, st) ==
    IF ~(st.p < aend) THEN [st EXCEPT !.done = TRUE]
    ELSE parse_tool_calls_at(json, aend, st, json_skip_ws(json, st.p))

\* the tool calls of the array with the span span
parse_tool_calls(json, span) ==
    IF ~span.ok THEN <<>>
    ELSE Loop(LAMBDA st : parse_tool_calls_step(json, span.end, st),
              [p |-> span.start + 1, calls |-> <<>>, done |-> FALSE]).calls

\* parse_llm_json_reply for a non-NULL text (a NULL text gives NULL)
parse_llm_json_reply(json) ==
    [assistant_text  |-> json_extract_string_field(json, "assistant_text", NULL),
     proposed_insert |-> json_extract_string_field(json, "proposed_insert", NULL),
     tool_calls      |-> parse_tool_calls(json, json_extract_array_span(json, "tool_calls"))]

\* p != NULL && *p != '\0'
NonEmpty(p) == ~IsNull(p) /\ p[1] # ""

\* g_string_append_c(gs, '\n') unless gs is empty or ends with a newline
LeaveEnd(gs) == gs

EnsureNewline(gs) == IF Len(gs) > 0 /\ LastChar(gs) # "\n" THEN gs \o "\n" ELSE gs

\* gs after the assistant text
format_assistant_text(r) ==
    IF NonEmpty(r.assistant_text) THEN r.assistant_text[1] ELSE ""

\* gs after the proposed script
format_proposed_insert(r, gs) ==
    IF NonEmpty(r.proposed_insert)
    THEN EnsureNewline((IF Len(gs) > 0 THEN gs \o "\n\n" ELSE gs)
                       \o "[Proposed script]\n" \o r.proposed_insert[1])
    ELSE gs

\* the fallback when nothing was written
format_fallback(gs, fallback) ==
    IF Len(gs) = 0 /\ ~IsNull(fallback) THEN fallback[1] ELSE gs

\* format_llm_reply_for_display for a non-NULL reply r
format_llm_reply_for_display(r, fallback) ==
    format_fallback(format_proposed_insert(r, format_assistant_text(r)), fallback)

-----------------------------------------------------------------------------
(* Tool executor (src/gui/ai_assistant.c) *)

\* the cap on the tool calls of one reply that are executed
MaxToolCalls == 8

\* the cap on the transcript of one round
TranscriptCap == 40000

\* the cap on the command-log tail
TailCap == 32000

\* one pass of the while (p > s) loop of tail_n_lines; p is the offset p - s
tail_scan_step(s, n_lines, st) ==
    IF ~(st.p > 0) THEN [st EXCEPT !.done = TRUE]
    ELSE IF At(s, st.p) = "\n"
         THEN IF st.n + 1 > n_lines
              THEN [p |-> st.p, n |-> st.n + 1, done |-> TRUE]
              ELSE [p |-> st.p - 1, n |-> st.n + 1, done |-> FALSE]
         ELSE [p |-> st.p - 1, n |-> st.n, done |-> FALSE]

\* the copy of the tail out, cut at TailCap
tail_cap(out) == IF Len(out) > TailCap THEN SubSeq(out, 1, TailCap) ELSE out

\* the tail for a positive n_lines
tail_scan(s, n_lines) ==
    tail_cap(From(s, Loop(LAMBDA st : tail_scan_step(s, n_lines, st),
                          [p |-> Len(s), n |-> 0, done |-> FALSE]).p + 1))

\* tail_n_lines for a non-NULL s
tail_n_lines(s, n_lines) == tail_scan(s, IF n_lines <= 0 THEN 50 ELSE n_lines)

\* tool_out with the test of the style inverted (strcmp without the !)
tool_out_style_inverted(tc, snap) ==
    IF tc.name = "get_dataset_summary" THEN snap.dataset
    ELSE IF tc.name = "get_last_error" THEN snap.last_error
    ELSE IF tc.name = "get_script_selection" THEN snap.script_selection
    ELSE IF tc.name = "get_script_full" THEN snap.script_full
    ELSE IF tc.name = "get_command_log_tail" THEN NULL
    ELSE IF tc.name = "get_last_model_summary"
         THEN IF ~IsNull(tc.style) /\ tc.style[1] # "full"
              THEN snap.last_model_full
              ELSE snap.last_model_simple
    ELSE NULL

\* the snapshot field a tool reads (NULL for an unknown tool)
tool_out(tc, snap) ==
    IF tc.name = "get_dataset_summary" THEN snap.dataset
    ELSE IF tc.name = "get_last_error" THEN snap.last_error
    ELSE IF tc.name = "get_script_selection" THEN snap.script_selection
    ELSE IF tc.name = "get_script_full" THEN snap.script_full
    ELSE IF tc.name = "get_command_log_tail" THEN NULL
    ELSE IF tc.name = "get_last_model_summary"
         THEN IF ~IsNull(tc.style) /\ tc.style[1] = "full"
              THEN snap.last_model_full
              ELSE snap.last_model_simple
    ELSE NULL

\* gs after the body out (NULL: no such field) of a block
append_tool_out(gs, out) ==
    IF ~IsNull(out) THEN EnsureNewline(gs \o out[1]) ELSE gs \o "(unavailable)\n"

\* one pass of the for loop of execute_tool_calls: gs after the block of tc
append_tool_block(gs, tc, snap) ==
    IF tc.name = "get_command_log_tail" /\ ~IsNull(snap.command_log)
    THEN EnsureNewline(gs \o "--- tool:" \o tc.name \o " ---\n"
                          \o tail_n_lines(snap.command_log[1], tc.n_lines))
         \o "--- end ---\n"
    ELSE append_tool_out(gs \o "--- tool:" \o tc.name \o " ---\n", tool_out(tc, snap))
         \o "--- end ---\n"

RECURSIVE execute_tool_calls_loop(_, _, _, _, _)
\* for (i = 0; i < n; i++), with i counted from 1
execute_tool_calls_loop(calls, snap, i, n, gs) ==
    IF i > n THEN gs
    ELSE execute_tool_calls_loop(calls, snap, i + 1, n,
                                 append_tool_block(gs, calls[i], snap))

\* tool_call_limit without the cap
tool_call_limit_none(len) == len

\* the cap on the number of calls executed
tool_call_limit(len) == IF len > MaxToolCalls THEN MaxToolCalls ELSE len

\* truncate_transcript with >= for > in the test of the length
truncate_transcript_at_cap(gs) ==
    IF Len(gs) >= TranscriptCap
    THEN SubSeq(gs, 1, TranscriptCap) \o "\n...[truncated]...\n"
    ELSE gs

\* the truncation of the transcript
truncate_transcript(gs) ==
    IF Len(gs) > TranscriptCap
    THEN SubSeq(gs, 1, TranscriptCap) \o "\n...[truncated]...\n"
    ELSE gs

\* execute_tool_calls for a non-NULL reply and snapshot: NULL or <<text>>
execute_tool_calls(r, snap) ==
    IF Len(r.tool_calls) = 0 THEN NULL
    ELSE Some(truncate_transcript(
             execute_tool_calls_loop(r.tool_calls, snap, 1,
                                     tool_call_limit(Len(r.tool_calls)), "")))

-----------------------------------------------------------------------------
(* Provider invoker (src/lib/src/gretl_llm.c) *)

\* the cap on a reply, 2 MiB
GRETL_LLM_MAX_REPLY == 2097152

\* gretl's error codes, and 0 for success
NoErr == "0"

\* strchr(s + (from - 1), c): the first position at or after from, else 0
strchr(s, c, from) == strstr(s, c, from)

\* one pass of the search of strrchr
strrchr_step(s, c, st) ==
    IF st.i < 1 THEN [i |-> 0, done |-> TRUE]
    ELSE IF At(s, st.i) = c THEN [i |-> st.i, done |-> TRUE]
    ELSE [i |-> st.i - 1, done |-> FALSE]

\* strrchr(s, c): the last position of c, 0 when there is none
strrchr(s, c) ==
    Loop(LAMBDA st : strrchr_step(s, c, st), [i |-> Len(s), done |-> FALSE]).i

\* the span from p0 to p1, the positions found by strchr and strrchr
strip_span(s, p0, p1) ==
    IF p0 = 0 \/ p1 = 0 \/ p1 <= p0 THEN NULL ELSE Some(SubSeq(s, p0, p1))

\* strip_to_json for a non-NULL s: NULL or <<the span from the first { to the last }>>
strip_to_json(s) == strip_span(s, strchr(s, "{", 1), strrchr(s, "}"))

\* append_utf8_from_codepoint, for the code points Chr spells (one byte each)
append_utf8_from_codepoint(gs, u) == gs \o Chr(u)

\* the state of the loop of json_unescape_string after one more character
unescape_next(p, gs) == [p |-> p, gs |-> gs, done |-> FALSE]

\* the value of the hex digit c, -1 when it is none
unescape_hex(c) == IF IsXDigit(c) THEN XDigitValue(c) ELSE 0 - 1

\* the \uXXXX case with the digit values h1..h4, q the position of the u
unescape_unicode(q, gs, h1, h2, h3, h4) ==
    IF h1 < 0 \/ h2 < 0 \/ h3 < 0 \/ h4 < 0 THEN unescape_next(q + 5, gs)
    ELSE unescape_next(q + 5,
             append_utf8_from_codepoint(gs, 4096 * h1 + 256 * h2 + 16 * h3 + h4))

\* the character e at q, after a backslash; pe is the end of the text
unescape_escape(s, pe, q, gs, e) ==
    CASE e \in {"\"", "\\", "/"} -> unescape_next(q + 1, gs \o e)
      [] e = "b" -> unescape_next(q + 1, gs \o Chr(8))
      [] e = "f" -> unescape_next(q + 1, gs \o "\f")
      [] e = "n" -> unescape_next(q + 1, gs \o "\n")
      [] e = "r" -> unescape_next(q + 1, gs \o "\r")
      [] e = "t" -> unescape_next(q + 1, gs \o "\t")
      [] e = "u" ->
           IF pe - q < 5 THEN unescape_next(pe, gs)
           ELSE unescape_unicode(q, gs, unescape_hex(At(s, q + 1)), unescape_hex(At(s, q + 2)),
                                 unescape_hex(At(s, q + 3)), unescape_hex(At(s, q + 4)))
      [] OTHER -> unescape_next(q + 1, gs \o e)

\* the passes of the loop of json_unescape_string from st.p up to the next
\* backslash at q (0: there is none), each of which appends its character
\* as it is
unescape_plain(s, st, q) ==
    IF q = 0 THEN unescape_next(Len(s) + 1, st.gs \o SubSeq(s, st.p, Len(s)))
    ELSE unescape_next(q, st.gs \o SubSeq(s, st.p, q - 1))

\* one pass of the while (p < pe) loop of json_unescape_string (the passes
\* over characters other than a backslash taken together); s is the
\* text between the quotes, so pe is Len(s) + 1
json_unescape_step(s, st) ==
    IF ~(st.p < Len(s) + 1) THEN [st EXCEPT !.done = TRUE]
    ELSE IF At(s, st.p) # "\\" THEN unescape_plain(s, st, strchr(s, "\\", st.p))
    ELSE IF st.p + 1 >= Len(s) + 1 THEN [p |-> st.p + 1, gs |-> st.gs, done |-> TRUE]
    ELSE unescape_escape(s, Len(s) + 1, st.p + 1, st.gs, At(s, st.p + 1))

\* json_unescape_string(s, len) with s the len characters to decode
json_unescape_string(s) ==
    Loop(LAMBDA st : json_unescape_step(s, st), [p |-> 1, gs |-> "", done |-> FALSE]).gs

\* one pass of the while (*q != '\0') loop of json_extract_string_field
llm_closing_quote_step(json, p, st) ==
    IF At(json, st.q) = "" THEN [st EXCEPT !.done = TRUE]
    ELSE IF At(json, st.q) = "\"" /\ (st.q = p \/ At(json, st.q - 1) # "\\")
         THEN [st EXCEPT !.done = TRUE]
    ELSE [q |-> st.q + 1, done |-> FALSE]

\* the position of the first quote at or after p that is not preceded by
\* a backslash, the position of the NUL when there is none
llm_closing_quote(json, p) ==
    Loop(LAMBDA st : llm_closing_quote_step(json, p, st), [q |-> p, done |-> FALSE]).q

\* one pass of the loop that skips the blanks after the colon
llm_skip_blank_step(json, st) ==
    IF At(json, st.p) \in {" ", "\t", "\n", "\r"}
    THEN [p |-> st.p + 1, done |-> FALSE]
    ELSE [p |-> st.p, done |-> TRUE]

llm_skip_blank(json, p0) ==
    Loop(LAMBDA st : llm_skip_blank_step(json, st), [p |-> p0, done |-> FALSE]).p

\* the value between the opening quote before p and the quote found at q
llm_extract_value(json, p, q) ==
    IF At(json, q) # "\"" THEN NULL
    ELSE IF q - p = 0 THEN Some("")
    ELSE Some(json_unescape_string(SubSeq(json, p, q - 1)))

\* the value expected at p, after the colon and the blanks
llm_extract_quoted(json, p) ==
    IF At(json, p) # "\"" THEN NULL
    ELSE llm_extract_value(json, p + 1, llm_closing_quote(json, p + 1))

\* the value after the colon at colon (0 when there is none)
llm_extract_after_colon(json, colon) ==
    IF colon = 0 THEN NULL ELSE llm_extract_quoted(json, llm_skip_blank(json, colon + 1))

\* the value of the field whose quoted name was found at hit (0: not found)
llm_extract_at(json, field, hit) ==
    IF hit = 0 THEN NULL
    ELSE llm_extract_after_colon(json, strchr(json, ":", hit + 2 + Len(field)))

\* json_extract_string_field of gretl_llm.c (json non-NULL): NULL or <<value>>
llm_json_extract_string_field(json, field) ==
    IF field = "" THEN NULL
    ELSE llm_extract_at(json, field, strstr(json, "\"" \o field \o "\"", 1))

\* set_spawn_error_buf with errmsg non-NULL; gerr is NULL or <<message>>
set_spawn_error_buf(prefix, gerr) ==
    [err |-> "E_EXTERNAL", reply |-> NULL,
     errmsg |-> IF ~IsNull(gerr) THEN Some(prefix \o ": " \o gerr[1]) ELSE Some(prefix)]

\* the text after the first message of check_child_status_buf
child_status_tail_plain(msg, w) ==
    IF w.stderr # "" THEN msg \o "\n\nstderr:\n" \o w.stderr
    ELSE IF w.stdout # "" THEN msg \o "\n\nstdout:\n" \o w.stdout
    ELSE msg

child_status_tail(msg, w) ==
    LET m1 == IF w.exit \in {124, 137}
              THEN msg \o " (timed out; set GRETL_LLM_TIMEOUT_SEC)" ELSE msg
    IN  IF w.stderr # "" THEN m1 \o "\n\nstderr:\n" \o w.stderr
        ELSE IF w.stdout # "" THEN m1 \o "\n\nstdout:\n" \o w.stdout
        ELSE m1

\* check_child_status_buf (errmsg non-NULL) for a child that exited with
\* code w.exit; the first message is GLib's g_spawn_check_exit_status text
check_child_status_buf(prog, w) ==
    IF w.exit = 0 THEN [err |-> NoErr, reply |-> NULL, errmsg |-> NULL]
    ELSE [err |-> "E_EXTERNAL", reply |-> NULL,
          errmsg |-> Some(child_status_tail(
                        prog \o " failed: Child process exited with code "
                             \o ToString(w.exit), w))]

\* the environment variables the invoker reads, none of them set
NoEnv ==
    [GRETL_CODEX_BIN |-> NULL, GRETL_GEMINI_BIN |-> NULL,
     GRETL_LLM_TIMEOUT_SEC |-> NULL, GRETL_LLM_UNSAFE |-> NULL,
     GRETL_CODEX_DANGEROUS |-> NULL, GRETL_LLM_PROVIDER |-> NULL]

\* a host: its environment (getenv), the files g_file_test finds executable,
\* and the programs g_find_program_in_path finds.  HostBare has nothing,
\* HostPath has the two CLIs and timeout on the search path
HostBare == [env |-> NoEnv, exec |-> {}, path |-> {}]

HostPath == [env |-> NoEnv, exec |-> {}, path |-> {"codex", "gemini", "timeout"}]

default_codex_bin == "/home/terry/.nvm/versions/node/v24.5.0/bin/codex"

default_gemini_bin == "/home/terry/.nvm/versions/node/v24.5.0/bin/gemini"

\* g_find_program_in_path(name) on the host of w: NULL or <<its path>>
g_find_program_in_path(name, w) ==
    IF name \in w.host.path THEN Some("/usr/bin/" \o name) ELSE NULL

GRETL_LLM_DEFAULT_TIMEOUT_SEC == 300

\* the end of llm_timeout_seconds: r is what strtol found, r.ok being
\* endp != s and r.out the value
llm_timeout_value_unclamped(r) ==
    IF ~r.ok \/ r.out <= 0 THEN GRETL_LLM_DEFAULT_TIMEOUT_SEC ELSE r.out

llm_timeout_value(r) ==
    IF ~r.ok \/ r.out <= 0 \/ r.out > 3600 THEN GRETL_LLM_DEFAULT_TIMEOUT_SEC
    ELSE r.out

\* llm_timeout_seconds; strtol(s, &endp, 10) is json_parse_int's reading of
\* a number (blanks, a sign, decimal digits)
llm_timeout_seconds(w) ==
    IF IsNull(w.host.env.GRETL_LLM_TIMEOUT_SEC) \/ w.host.env.GRETL_LLM_TIMEOUT_SEC[1] = ""
    THEN GRETL_LLM_DEFAULT_TIMEOUT_SEC
    ELSE llm_timeout_value(json_parse_int(w.host.env.GRETL_LLM_TIMEOUT_SEC[1], 1))

\* s != NULL && *s != '\0' for the value s of a variable
env_nonempty(s) == ~IsNull(s) /\ s[1] # ""

\* s != NULL && *s != '\0' && strcmp(s, "0") for the value s of a variable
env_switched_on_any(s) == ~IsNull(s) /\ s[1] # ""

env_switched_on(s) ==
    ~IsNull(s) /\ s[1] # "" /\ s[1] # "0"

codex_dangerous_default(w) ==
    env_switched_on(w.host.env.GRETL_LLM_UNSAFE)
        \/ env_switched_on(w.host.env.GRETL_CODEX_DANGEROUS)

\* argv_wrap_timeout (not WIN32): the argument vector as a sequence
argv_wrap_timeout(base_argv, w) ==
    IF IsNull(g_find_program_in_path("timeout", w)) THEN base_argv
    ELSE <<g_find_program_in_path("timeout", w)[1], "--signal=KILL",
           ToString(llm_timeout_seconds(w)) \o "s">> \o base_argv

\* find_executable: NULL or <<path>>
find_executable(provider, w) ==
    IF provider \notin {"GRETL_LLM_CODEX", "GRETL_LLM_GEMINI"} THEN NULL
    ELSE IF provider = "GRETL_LLM_CODEX" /\ env_nonempty(w.host.env.GRETL_CODEX_BIN)
         THEN w.host.env.GRETL_CODEX_BIN
    ELSE IF provider = "GRETL_LLM_GEMINI" /\ env_nonempty(w.host.env.GRETL_GEMINI_BIN)
         THEN w.host.env.GRETL_GEMINI_BIN
    ELSE IF provider = "GRETL_LLM_CODEX" /\ default_codex_bin \in w.host.exec
         THEN Some(default_codex_bin)
    ELSE IF provider = "GRETL_LLM_GEMINI" /\ default_gemini_bin \in w.host.exec
         THEN Some(default_gemini_bin)
    ELSE IF provider = "GRETL_LLM_CODEX" THEN g_find_program_in_path("codex", w)
    ELSE g_find_program_in_path("gemini", w)

\* g_ascii_tolower
g_ascii_tolower(c) ==
    IF IndexIn("ABCDEFGHIJKLMNOPQRSTUVWXYZ", c, 1) = 0 THEN c
    ELSE At("abcdefghijklmnopqrstuvwxyz", IndexIn("ABCDEFGHIJKLMNOPQRSTUVWXYZ", c, 1))

\* g_ascii_strcasecmp(s1, s2) = 0
strcmp_equal(s1, s2) == s1 = s2

g_ascii_strcasecmp_equal(s1, s2) ==
    /\ Len(s1) = Len(s2)
    /\ \A i \in 1..Len(s1) : g_ascii_tolower(At(s1, i)) = g_ascii_tolower(At(s2, i))

\* gretl_llm_provider_from_string(s, &p) with p non-NULL; s is NULL or
\* <<name>>.  [err, p, errmsg]: errmsg is what gretl_errmsg_sprintf set
gretl_llm_provider_from_string(s) ==
    IF IsNull(s) \/ s[1] = ""
    THEN [err |-> NoErr, p |-> "GRETL_LLM_NONE", errmsg |-> NULL]
    ELSE IF g_ascii_strcasecmp_equal(s[1], "codex")
    THEN [err |-> NoErr, p |-> "GRETL_LLM_CODEX", errmsg |-> NULL]
    ELSE IF g_ascii_strcasecmp_equal(s[1], "gemini")
    THEN [err |-> NoErr, p |-> "GRETL_LLM_GEMINI", errmsg |-> NULL]
    ELSE IF g_ascii_strcasecmp_equal(s[1], "none")
    THEN [err |-> NoErr, p |-> "GRETL_LLM_NONE", errmsg |-> NULL]
    ELSE [err |-> "E_DATA", p |-> "GRETL_LLM_NONE",
          errmsg |-> Some("Unknown LLM provider '" \o s[1]
                          \o "' (expected codex|gemini)")]

\* what a call did besides returning res: the argument vector handed to
\* g_spawn_sync (<<>> when it was not called), whether g_file_open_tmp made
\* a file, and whether that file is still there at the return
Traced(res, argv, tmp_made, tmp_left) ==
    [err |-> res.err, reply |-> res.reply, errmsg |-> res.errmsg,
     argv |-> argv, tmp_made |-> tmp_made, tmp_left |-> tmp_left]

\* read_reply_file_buf: w.file is the content of the output file, NULL
\* when it cannot be read
read_reply_file_buf_no_cap(w) ==
    IF IsNull(w.file) THEN set_spawn_error_buf("Failed to read LLM output file", w.gerr)
    ELSE [err |-> NoErr, reply |-> w.file, errmsg |-> NULL]

read_reply_file_buf(w) ==
    IF IsNull(w.file) THEN set_spawn_error_buf("Failed to read LLM output file", w.gerr)
    ELSE IF Len(w.file[1]) > GRETL_LLM_MAX_REPLY
         THEN [err |-> "E_TOOLONG", reply |-> NULL, errmsg |-> Some("LLM reply too long")]
    ELSE [err |-> NoErr, reply |-> w.file, errmsg |-> NULL]

\* the end of run_codex_cli_buf: rd is what read_reply_file_buf gave
codex_reply(w, rd) ==
    IF rd.err = NoErr /\ (IsNull(rd.reply) \/ rd.reply[1] = "")
    THEN [err |-> "E_EXTERNAL", reply |-> rd.reply,
          errmsg |-> IF w.stderr # ""
                     THEN Some("codex returned no reply (stderr follows)\n" \o w.stderr)
                     ELSE IF w.stdout # ""
                     THEN Some("codex returned no reply (stdout follows)\n" \o w.stdout)
                     ELSE Some("codex returned no reply")]
    ELSE rd

\* run_codex_cli_buf after the child exited: st is the result of
\* check_child_status_buf
codex_exited(w, st) ==
    IF st.err # NoErr THEN st ELSE codex_reply(w, read_reply_file_buf(w))

\* the two argument vectors of run_codex_cli_buf
base_argv_safe(bin, tmpname, prompt) ==
    <<bin, "-a", "never", "exec", "-s", "read-only", "--color", "never",
      "--skip-git-repo-check", "--output-last-message", tmpname, prompt>>

base_argv_danger(bin, tmpname, prompt) ==
    <<bin, "exec", "--dangerously-bypass-approvals-and-sandbox", "--color", "never",
      "--skip-git-repo-check", "--output-last-message", tmpname, prompt>>

\* the argv of run_codex_cli_buf; g_file_open_tmp named the file w.tmpname
codex_argv(bin, prompt, w) ==
    argv_wrap_timeout(IF codex_dangerous_default(w)
                      THEN base_argv_danger(bin, w.tmpname, prompt)
                      ELSE base_argv_safe(bin, w.tmpname, prompt), w)

\* g_unlink(name) on the set files of temporary files that exist
g_unlink_skipped(files, name) == files

g_unlink(files, name) == files \ {name}

\* run_codex_cli_buf in the world w: [err, reply, errmsg] and what it did;
\* g_file_open_tmp made the file w.tmpname, and each way out after that
\* goes through g_unlink(tmpname)
run_codex_cli_buf(bin, prompt, w) ==
    IF ~w.tmp
    THEN Traced(set_spawn_error_buf("Failed to create temp file for codex output", w.gerr),
                <<>>, FALSE, FALSE)
    ELSE IF ~w.spawn
    THEN Traced(set_spawn_error_buf("Failed to run codex CLI", w.gerr),
                codex_argv(bin, prompt, w), TRUE,
                w.tmpname \in g_unlink({w.tmpname}, w.tmpname))
    ELSE Traced(codex_exited(w, check_child_status_buf("codex", w)),
                codex_argv(bin, prompt, w), TRUE,
                w.tmpname \in g_unlink({w.tmpname}, w.tmpname))

\* the end of run_gemini_cli_buf: resp is the response field, or NULL
gemini_reply(w, resp) ==
    IF IsNull(resp)
    THEN [err |-> "E_EXTERNAL", reply |-> NULL,
          errmsg |-> IF w.stdout # ""
                     THEN Some("Failed to parse gemini response (output follows)\n" \o w.stdout)
                     ELSE IF w.stderr # ""
                     THEN Some("gemini returned no JSON (stderr follows)\n" \o w.stderr)
                     ELSE Some("gemini returned no reply")]
    ELSE IF Len(resp[1]) > GRETL_LLM_MAX_REPLY
         THEN [err |-> "E_TOOLONG", reply |-> NULL, errmsg |-> Some("LLM reply too long")]
    ELSE [err |-> NoErr, reply |-> resp, errmsg |-> NULL]

\* the response field of the stripped output json (NULL when none)
gemini_response(json) ==
    IF ~IsNull(json) THEN llm_json_extract_string_field(json[1], "response") ELSE NULL

\* run_gemini_cli_buf after the child exited: st is the result of
\* check_child_status_buf
gemini_exited_unchecked(w, st) ==
    IF st.err # NoErr THEN st
    ELSE gemini_reply(w, gemini_response(strip_to_json(w.stdout)))

gemini_exited(w, st) ==
    IF st.err # NoErr THEN st
    ELSE IF strstr(w.stderr, "An unexpected critical error occurred", 1) # 0
         THEN [err |-> "E_EXTERNAL", reply |-> NULL,
               errmsg |-> Some("gemini CLI error:\n" \o w.stderr)]
    ELSE gemini_reply(w, gemini_response(strip_to_json(w.stdout)))

\* the argv of run_gemini_cli_buf
gemini_argv(bin, prompt, w) ==
    argv_wrap_timeout(<<bin, "-p", prompt, "--output-format", "json",
                        "--allowed-mcp-server-names", "gretl-none",
                        "--allowed-tools", "gretl-none">>, w)

\* run_gemini_cli_buf in the world w: [err, reply, errmsg] and what it did
run_gemini_cli_buf(bin, prompt, w) ==
    IF ~w.spawn
    THEN Traced(set_spawn_error_buf("Failed to run gemini CLI", w.gerr),
                gemini_argv(bin, prompt, w), FALSE, FALSE)
    ELSE Traced(gemini_exited(w, check_child_status_buf("gemini", w)),
                gemini_argv(bin, prompt, w), FALSE, FALSE)

gretl_llm_provider_name(p) ==
    IF p = "GRETL_LLM_CODEX" THEN "codex"
    ELSE IF p = "GRETL_LLM_GEMINI" THEN "gemini"
    ELSE "none"

\* gretl_llm_default_provider; r is what gretl_llm_provider_from_string
\* made of GRETL_LLM_PROVIDER
default_provider_of(s, r) ==
    IF env_nonempty(s) /\ r.err = NoErr THEN r.p ELSE "GRETL_LLM_CODEX"

gretl_llm_default_provider(w) ==
    default_provider_of(w.host.env.GRETL_LLM_PROVIDER,
                        gretl_llm_provider_from_string(w.host.env.GRETL_LLM_PROVIDER))

\* gretl_llm_complete_with_error once bin = find_executable(provider)
llm_complete_found(provider, prompt, w, bin) ==
    IF IsNull(bin) \/ bin[1] = ""
    THEN Traced([err |-> "E_EXTERNAL", reply |-> NULL,
                 errmsg |-> Some("Cannot find " \o gretl_llm_provider_name(provider)
                                 \o " executable (set GRETL_"
                                 \o (IF provider = "GRETL_LLM_CODEX" THEN "CODEX" ELSE "GEMINI")
                                 \o "_BIN)")],
                <<>>, FALSE, FALSE)
    ELSE IF provider = "GRETL_LLM_CODEX" THEN run_codex_cli_buf(bin[1], prompt, w)
    ELSE IF provider = "GRETL_LLM_GEMINI" THEN run_gemini_cli_buf(bin[1], prompt, w)
    ELSE Traced([err |-> "E_DATA", reply |-> NULL,
                 errmsg |-> Some("No LLM provider selected")], <<>>, FALSE, FALSE)

\* gretl_llm_complete_with_error(provider, prompt, &reply, &errmsg) in the
\* world w, prompt being NULL or <<text>>: [err, reply, errmsg] and what
\* the call did
gretl_llm_complete_with_error_any_prompt(provider, prompt, w) ==
    With(IF provider = "GRETL_LLM_NONE" THEN gretl_llm_default_provider(w)
         ELSE provider,
         LAMBDA pr : llm_complete_found(pr, IF IsNull(prompt) THEN "" ELSE prompt[1],
                                        w, find_executable(pr, w)))

gretl_llm_complete_with_error(provider, prompt, w) ==
    IF IsNull(prompt) \/ prompt[1] = ""
    THEN Traced([err |-> "E_DATA", reply |-> NULL, errmsg |-> Some("Missing prompt")],
                <<>>, FALSE, FALSE)
    ELSE With(IF provider = "GRETL_LLM_NONE" THEN gretl_llm_default_provider(w)
              ELSE provider,
              LAMBDA pr : llm_complete_found(pr, prompt[1], w, find_executable(pr, w)))

\* the text run_codex_cli and run_gemini_cli set for a child that exited
\* with a code other than 0 (src/lib/src/gretl_llm.c:539-548, 697-706)
child_status_errmsg(prog, w) ==
    IF w.exit \in {124, 137} THEN prog \o " timed out (set GRETL_LLM_TIMEOUT_SEC)"
    ELSE IF w.stderr # "" THEN prog \o " failed (stderr follows)\n" \o w.stderr
    ELSE IF w.stdout # "" THEN prog \o " failed (stdout follows)\n" \o w.stdout
    ELSE prog \o " failed"

\* gretl_llm_complete(provider, prompt, &reply) in the world w, errmsg
\* being the text it leaves in gretl's error message buffer.  It is
\* gretl_llm_complete_with_error line by line, with run_codex_cli and
\* run_gemini_cli for the _buf functions; these differ from them in the
\* text for a nonzero exit only.  r is the result of the other function
llm_complete_from(provider, w, r) ==
    IF r.argv # <<>> /\ w.spawn /\ w.exit # 0
    THEN [r EXCEPT !.errmsg =
             Some(child_status_errmsg(
                 gretl_llm_provider_name(IF provider = "GRETL_LLM_NONE"
                                         THEN gretl_llm_default_provider(w)
                                         ELSE provider), w))]
    ELSE r

gretl_llm_complete(provider, prompt, w) ==
    llm_complete_from(provider, w, gretl_llm_complete_with_error(provider, prompt, w))

-----------------------------------------------------------------------------
(* The application state read by the snapshot producers, and the provider's
   replies (the environment of the assistant) *)

\* what the producers of src/gui/ai_assistant.c return with nothing loaded
AppEmpty ==
    [dataset           |-> "[Dataset]\n(no dataset loaded)\n",
     last_error        |-> "[Last error]\n(none)\n",
     script_context    |-> "[Script]\n(no active script editor)\n",
     script_selection  |-> "(no active script editor)\n",
     script_full       |-> "(no active script editor)\n",
     command_log       |-> "(unavailable)\n",
     last_model_simple |-> "(none)\n",
     last_model_full   |-> "(none)\n"]

\* what they return in a working session: a dataset, a failed command, a
\* script editor without a selection, a command log and an estimated model
AppWork ==
    [dataset           |-> "[Dataset]\nnobs=10, vars=3, pd=1, sample=1..10\nvars: y, x\n",
     last_error        |-> "[Last error]\nData error\n",
     script_context    |-> "[Script] (full)\nopen data4-1\nols y 0 x\n",
     script_selection  |-> "(no selection)\n",
     script_full       |-> "open data4-1\nols y 0 x",
     command_log       |-> "open data4-1\nols y 0 x\nprint y\n",
     last_model_simple |-> "Model 1: OLS\n",
     last_model_full   |-> "Model 1: OLS, using observations 1-10\nR-squared 0.9\n"]

\* the snapshot taken by ask_clicked in the application state app
take_snapshot(app) ==
    [dataset           |-> Some(app.dataset),
     last_error        |-> Some(app.last_error),
     script_selection  |-> Some(app.script_selection),
     script_full       |-> Some(app.script_full),
     command_log       |-> Some(app.command_log),
     last_model_simple |-> Some(app.last_model_simple),
     last_model_full   |-> Some(app.last_model_full)]

\* provider replies: one that asks for tools and proposes a script, one
\* final answer with a script, one without, and one in plain prose
ReplyTools ==
    "{\"assistant_text\":\"checking\",\"proposed_insert\":\"ols y 0 x\","
    \o "\"tool_calls\":[{\"name\":\"get_last_error\"},"
    \o "{\"name\":\"get_command_log_tail\",\"args\":{\"n_lines\":2}}]}"

ReplyFinal ==
    "{\"assistant_text\":\"hi\",\"proposed_insert\":\"print x\",\"tool_calls\":[]}"

ReplyText == "{\"assistant_text\":\"hi\",\"tool_calls\":[]}"

ReplyProse == "Use the ols command."

ReplyUnknown ==
    "{\"tool_calls\":[{\"name\":\"run_script\",\"args\":{\"code\":\"quit\"}},"
    \o "{\"name\":\"get_last_model_summary\",\"args\":{\"style\":\"full\"}}]}"

\* the JSON string literal a provider writes for the text s
json_encode_string(s) ==
    LET Step(st) ==
            LET c == At(s, st.p)
            IN  IF c = "" THEN [st EXCEPT !.done = TRUE]
                ELSE [p  |-> st.p + 1,
                      gs |-> st.gs \o (CASE c = "\"" -> "\\\""
                                         [] c = "\\" -> "\\\\"
                                         [] c = "\n" -> "\\n"
                                         [] OTHER -> c),
                      done |-> FALSE]
    IN  "\"" \o Loop(Step, [p |-> 1, gs |-> "", done |-> FALSE]).gs \o "\""

\* a run of the provider's CLI that exits with 0 and answers text: codex
\* writes it to the --output-last-message file, gemini prints a JSON object
\* with a response field
WorldReply(provider, text) ==
    [host |-> HostPath, tmpname |-> "/tmp/gretl_codex_lastmsg_A1B2C3", tmp |-> TRUE, spawn |-> TRUE, exit |-> 0, gerr |-> NULL,
     stderr |-> "",
     stdout |-> IF provider = "GRETL_LLM_GEMINI"
                THEN "{\"response\": " \o json_encode_string(text) \o ", \"stats\": {}}"
                ELSE "",
     file   |-> IF provider = "GRETL_LLM_CODEX" THEN Some(text) ELSE NULL]

\* runs that fail: no executable, no temporary file, no child process, and
\* a nonzero exit with text on stderr
WorldNoBin ==
    [host |-> HostBare, tmpname |-> "/tmp/gretl_codex_lastmsg_A1B2C3", tmp |-> TRUE, spawn |-> TRUE, exit |-> 0, gerr |-> NULL,
     stderr |-> "", stdout |-> "", file |-> NULL]

WorldNoTmp ==
    [host |-> HostPath, tmpname |-> "", tmp |-> FALSE, spawn |-> TRUE, exit |-> 0,
     gerr |-> Some("Failed to create file: Permission denied"),
     stderr |-> "", stdout |-> "", file |-> NULL]

WorldNoSpawn ==
    [host |-> HostPath, tmpname |-> "/tmp/gretl_codex_lastmsg_A1B2C3", tmp |-> TRUE, spawn |-> FALSE, exit |-> 0,
     gerr |-> Some("Failed to execute child process (No such file or directory)"),
     stderr |-> "", stdout |-> "", file |-> NULL]

WorldExit(code) ==
    [host |-> HostPath, tmpname |-> "/tmp/gretl_codex_lastmsg_A1B2C3", tmp |-> TRUE, spawn |-> TRUE, exit |-> code, gerr |-> NULL,
     stderr |-> "boom", stdout |-> "", file |-> NULL]

\* the runs the scheduler is explored with
Worlds(provider) ==
    {WorldReply(provider, t) : t \in {ReplyTools, ReplyFinal}}
        \cup {WorldExit(1)}

\* the runs the agent loop alone is explored with
JobWorlds(provider) ==
    {WorldReply(provider, t) :
        t \in {ReplyTools, ReplyUnknown, ReplyFinal, ReplyText, ReplyProse, ""}}
        \cup {WorldNoBin, WorldNoTmp, WorldNoSpawn, WorldExit(1), WorldExit(124)}

-----------------------------------------------------------------------------
(* Agent loop (job_thread, src/gui/ai_assistant.c) *)

\* round_prompt without the tool log
round_prompt_bare(job) == job.prompt

\* the prompt of one round: the job's prompt, followed by the tool log and
\* the closing instruction once the log is not empty
round_prompt(job) ==
    IF job.tools_enabled /\ ~IsNull(job.tool_log) /\ Len(job.tool_log[1]) > 0
    THEN job.prompt \o "\n\nTool results:\n" \o job.tool_log[1]
                    \o "\n\nNow respond using the JSON schema.\n"
    ELSE job.prompt

\* the number of rounds the for loop allows
round_limit(job) == IF job.tools_enabled THEN 2 ELSE 1

\* err || reply == NULL
call_failed(res) == res.err # NoErr \/ IsNull(res.reply)

\* failure_reply without the copy of the error text
failure_reply_keep(res) == res.reply

\* the reply after a failed call
failure_reply(res) ==
    IF ~IsNull(res.errmsg) THEN res.errmsg ELSE Some("LLM call failed")

\* skips_decoding without the test of tools_enabled
skips_decoding_never(job) == FALSE

\* whether the reply is kept as it is, without decoding
skips_decoding(job) == ~job.tools_enabled

\* is_tool_round without the test of the round
is_tool_round_any(r, iter) == Len(r.tool_calls) > 0

\* the test that makes a round a tool round
is_tool_round(r, iter) == Len(r.tool_calls) > 0 /\ iter = 0

\* captured_insert without the capture
captured_insert_never(r, insert_text) == insert_text

\* insert_text after the finalizing reply r
captured_insert(r, insert_text) ==
    IF NonEmpty(r.proposed_insert) THEN r.proposed_insert ELSE insert_text

\* g_string_append(tool_log, tool_results) when both are non-NULL
append_tool_log(tool_log, tool_results) ==
    IF ~IsNull(tool_results) /\ ~IsNull(tool_log)
    THEN Some(tool_log[1] \o tool_results[1]) ELSE tool_log

\* the end of job_thread: the log is freed, the locals are stored in the
\* job and job_complete_idle is posted
job_thread_post_early(job, reply, insert_text) ==
    [job EXCEPT !.reply = reply, !.insert_text = insert_text]

job_thread_post(job, reply, insert_text) ==
    [job EXCEPT !.pc = "posted", !.tool_log = NULL,
                !.reply = reply, !.insert_text = insert_text,
                !.l_reply = NULL, !.l_insert = NULL]

\* the round after the reply was decoded to r; j1 is the job with the
\* invocation recorded
job_thread_decoded(j1, res, r) ==
    IF is_tool_round(r, j1.iter)
    THEN With([j1 EXCEPT !.tool_log = append_tool_log(@, execute_tool_calls(r, j1.snapshot)),
                         !.tool_runs = @ + 1,
                         !.iter = @ + 1,
                         !.l_reply = res.reply],
              LAMBDA j2 : IF j2.iter < round_limit(j2) THEN j2
                          ELSE job_thread_post(j2, j2.l_reply, j2.l_insert))
    ELSE job_thread_post(j1, Some(format_llm_reply_for_display(r, res.reply)),
                         captured_insert(r, j1.l_insert))

\* the round after the provider returned res
job_thread_returned(j1, res) ==
    IF call_failed(res) THEN job_thread_post(j1, failure_reply(res), j1.l_insert)
    ELSE IF skips_decoding(j1) THEN job_thread_post(j1, res.reply, j1.l_insert)
    ELSE job_thread_decoded(j1, res, parse_llm_json_reply(res.reply[1]))

\* the round with the prompt full_prompt and the provider's result res;
\* calls records the invocations (the prompt, the result, and the number
\* of tool executions before it) and tool_runs counts the tool executions
job_thread_called(job, full_prompt, res) ==
    job_thread_returned(
        [job EXCEPT !.calls = Append(@, [prompt |-> full_prompt, res |-> res,
                                         tool_runs |-> job.tool_runs])],
        res)

\* the round with the prompt full_prompt
job_thread_prompted(job, full_prompt, w) ==
    job_thread_called(job, full_prompt,
        gretl_llm_complete_with_error(job.provider, Some(full_prompt), w))

\* one pass of the for loop of job_thread, the provider running in world w
job_thread_iter(job, w) == job_thread_prompted(job, round_prompt(job), w)

-----------------------------------------------------------------------------
(* Request scheduler (src/gui/ai_assistant.c) *)

\* the number of heap addresses g_malloc0 may return for an AiAssistant
NumAddrs == 2
\* the number of assistant windows opened in one run
MaxSessions == 2
\* the number of jobs created in one run
MaxJobs == 3

Addr == 1..NumAddrs

\* selected_provider: the provider of the combo box index
selected_provider(idx) == IF idx = 1 THEN "GRETL_LLM_GEMINI" ELSE "GRETL_LLM_CODEX"

\* build_full_prompt for the toggles and the application state of inp
build_full_prompt(inp, user_prompt) ==
    "You are an assistant embedded in the gretl GUI. "
    \o "Be concise. If you propose code, output plain hansl without Markdown fences.\n\n"
    \o (IF inp.enable_tools
        THEN "Return ONLY a single JSON object with this schema:\n"
             \o "{\"assistant_text\": \"...\", \"proposed_insert\": \"...\", \"tool_calls\": [{\"name\":\"...\",\"args\":{...}}]}\n"
             \o "If you do not need tools, set tool_calls to [].\n"
             \o "Available read-only tools:\n"
             \o "- get_dataset_summary\n"
             \o "- get_last_error\n"
             \o "- get_script_selection\n"
             \o "- get_script_full\n"
             \o "- get_command_log_tail (args: {\"n_lines\": 50})\n"
             \o "- get_last_model_summary (args: {\"style\": \"simple\"|\"full\"})\n"
             \o "Do not include Markdown fences.\n\n"
        ELSE "")
    \o "User request:\n" \o user_prompt \o "\n\n"
    \o (IF inp.include_dataset THEN inp.app.dataset \o "\n" ELSE "")
    \o (IF inp.include_last_error THEN inp.app.last_error \o "\n" ELSE "")
    \o (IF inp.include_script THEN inp.app.script_context \o "\n" ELSE "")

\* what the user has set up when the Ask button is clicked: the prompt
\* text, the provider combo, the tools toggle, the three context toggles,
\* and the application state
AskInput(text, idx, tools, ds, le, sc, app) ==
    [user_prompt |-> text, provider_idx |-> idx, enable_tools |-> tools,
     include_dataset |-> ds, include_last_error |-> le, include_script |-> sc,
     app |-> app]

\* the clicks the scheduler is explored with: an empty prompt, the window's
\* defaults, and gemini without tools
AskInputs ==
    {AskInput("", 0, TRUE, TRUE, FALSE, FALSE, AppEmpty),
     AskInput("Why did ols fail?", 0, TRUE, TRUE, FALSE, FALSE, AppWork),
     AskInput("Plot y", 1, FALSE, FALSE, TRUE, TRUE, AppEmpty)}

\* the clicks the agent loop alone is explored with
JobInputs ==
    {AskInput("Why did ols fail?", idx, tools, TRUE, FALSE, tools, app) :
        idx \in {0, 1}, tools \in BOOLEAN, app \in {AppEmpty, AppWork}}

\* freed memory, and the AiAssistant of a window that was just built
FreedAsst ==
    [sid |-> 0, busy |-> FALSE, ask_button |-> FALSE, copy_button |-> FALSE,
     insert_button |-> FALSE, reply_view |-> "", status_label |-> "",
     last_reply |-> NULL, last_insert |-> NULL]

NewAsst(sid) ==
    [sid |-> sid, busy |-> FALSE, ask_button |-> TRUE, copy_button |-> TRUE,
     insert_button |-> TRUE, reply_view |-> "", status_label |-> "",
     last_reply |-> NULL, last_insert |-> NULL]

\* the AiAssistant after ask_clicked accepted a click
set_busy(asst) ==
    [asst EXCEPT !.busy = TRUE, !.ask_button = FALSE, !.copy_button = FALSE,
                 !.insert_button = FALSE, !.status_label = "Working..."]

\* the AiJob built by ask_clicked, and the locals of its job_thread; sid
\* remembers the session that created the job
NewJob(a, sid, inp) ==
    [asst |-> a, sid |-> sid,
     provider |-> selected_provider(inp.provider_idx),
     prompt |-> build_full_prompt(inp, inp.user_prompt),
     reply |-> NULL, insert_text |-> NULL,
     tools_enabled |-> inp.enable_tools,
     snapshot |-> take_snapshot(inp.app),
     pc |-> "loop", iter |-> 0,
     tool_log |-> IF inp.enable_tools THEN Some("") ELSE NULL,
     l_reply |-> NULL, l_insert |-> NULL,
     calls |-> <<>>, tool_runs |-> 0]

\* what a job owns besides its prompt, its reply, its window reference and
\* itself
SnapshotFields ==
    {"snapshot.dataset", "snapshot.last_error", "snapshot.script_selection",
     "snapshot.script_full", "snapshot.command_log",
     "snapshot.last_model_simple", "snapshot.last_model_full"}

\* the probe of the function specifications when it is not in use
ProbeIdle == [pc |-> "idle"]

VARIABLES
    assts,        \* the heap: the AiAssistant at each address (FreedAsst if none)
    global_asst,  \* the address of the live AiAssistant, 0 for NULL
    jobs,         \* the AiJobs that exist, by number
    nsessions,    \* the windows opened so far
    njobs,        \* the jobs created so far
    leaked,       \* what completed jobs owned and did not free
    last_op,      \* the handler that ran last
    probe         \* the input and the result of a function applied on its own

sched == <<assts, global_asst, jobs, nsessions, njobs, leaked, last_op>>

vars == <<assts, global_asst, jobs, nsessions, njobs, leaked, last_op, probe>>

InitSched ==
    /\ assts = [a \in Addr |-> FreedAsst]
    /\ global_asst = 0
    /\ jobs = <<>>
    /\ nsessions = 0
    /\ njobs = 0
    /\ leaked = {}
    /\ last_op = "init"

Init == InitSched /\ probe = ProbeIdle

\* show_ai_assistant: present the live window, or build one; g_malloc0
\* returns any free address, also one a destroyed session used
show_ai_assistant ==
    /\ IF global_asst # 0
       THEN /\ last_op' = "present"
            /\ UNCHANGED <<assts, global_asst, nsessions>>
       ELSE /\ nsessions < MaxSessions
            /\ \E a \in Addr, viewer_ok \in BOOLEAN :
                  IF viewer_ok
                  THEN /\ assts' = [assts EXCEPT ![a] = NewAsst(nsessions + 1)]
                       /\ global_asst' = a
                       /\ nsessions' = nsessions + 1
                       /\ last_op' = "show"
                  ELSE /\ last_op' = "show_failed"
                       /\ UNCHANGED <<assts, global_asst, nsessions>>
    /\ UNCHANGED <<jobs, njobs, leaked, probe>>

\* ai_destroyed: the window of the live session is destroyed
ai_destroyed ==
    /\ global_asst # 0
    /\ assts' = [assts EXCEPT ![global_asst] = FreedAsst]
    /\ global_asst' = 0
    /\ last_op' = "destroyed"
    /\ UNCHANGED <<jobs, nsessions, njobs, leaked, probe>>

\* ask_clicked on the live window
ask_clicked(inp) ==
    /\ global_asst # 0
    /\ LET a == global_asst IN
       IF assts[a].busy \/ inp.user_prompt = ""
       THEN /\ last_op' = "ask_rejected"
            /\ UNCHANGED <<assts, jobs, njobs>>
       ELSE /\ njobs < MaxJobs
            /\ assts' = [assts EXCEPT ![a] = set_busy(@)]
            /\ jobs' = [j \in DOMAIN jobs \cup {njobs + 1} |->
                           IF j = njobs + 1 THEN NewJob(a, assts[a].sid, inp)
                           ELSE jobs[j]]
            /\ njobs' = njobs + 1
            /\ last_op' = "ask"
    /\ UNCHANGED <<global_asst, nsessions, leaked, probe>>

\* one round of the worker thread of job j, the provider running in one
\* of the worlds W
job_thread(j, W) ==
    /\ jobs[j].pc = "loop"
    /\ last_op' = "job_thread"
    /\ \E w \in W : jobs' = [jobs EXCEPT ![j] = job_thread_iter(@, w)]
    /\ UNCHANGED <<assts, global_asst, nsessions, njobs, leaked, probe>>

\* whether job_complete_idle takes the path of a dead session
is_stale(job) == global_asst # job.asst \/ job.asst = 0

\* what job_complete_idle leaves allocated
unfreed(job) ==
    IF is_stale(job)
    THEN SnapshotFields \cup (IF IsNull(job.insert_text) THEN {} ELSE {"insert_text"})
    ELSE {}

\* the AiAssistant after job_complete_idle delivered job to it
deliver_keep_insert(asst, job) ==
    [asst EXCEPT !.busy = FALSE, !.ask_button = TRUE, !.copy_button = TRUE,
                 !.insert_button = TRUE,
                 !.reply_view = IF ~IsNull(job.reply) THEN job.reply[1] ELSE "",
                 !.last_reply = Some(IF ~IsNull(job.reply) THEN job.reply[1] ELSE ""),
                 !.last_insert = IF ~IsNull(job.insert_text)
                                 THEN Some(job.insert_text[1]) ELSE @,
                 !.status_label = ""]

deliver_busy(asst, job) ==
    [asst EXCEPT !.reply_view = IF ~IsNull(job.reply) THEN job.reply[1] ELSE "",
                 !.last_reply = Some(IF ~IsNull(job.reply) THEN job.reply[1] ELSE ""),
                 !.last_insert = Some(IF ~IsNull(job.insert_text)
                                      THEN job.insert_text[1] ELSE ""),
                 !.status_label = ""]

deliver(asst, job) ==
    [asst EXCEPT !.busy = FALSE, !.ask_button = TRUE, !.copy_button = TRUE,
                 !.insert_button = TRUE,
                 !.reply_view = IF ~IsNull(job.reply) THEN job.reply[1] ELSE "",
                 !.last_reply = Some(IF ~IsNull(job.reply) THEN job.reply[1] ELSE ""),
                 !.last_insert = Some(IF ~IsNull(job.insert_text)
                                      THEN job.insert_text[1] ELSE ""),
                 !.status_label = ""]

\* job_complete_idle, run by the main loop for the posted job j
job_complete_idle(j) ==
    /\ jobs[j].pc = "posted"
    /\ IF is_stale(jobs[j])
       THEN /\ last_op' = "complete_stale"
            /\ UNCHANGED assts
       ELSE /\ assts' = [assts EXCEPT ![jobs[j].asst] = deliver(@, jobs[j])]
            /\ last_op' = "complete"
    /\ leaked' = leaked \cup unfreed(jobs[j])
    /\ jobs' = [k \in DOMAIN jobs \ {j} |-> jobs[k]]
    /\ UNCHANGED <<global_asst, nsessions, njobs, probe>>

\* insert_clicked: the text txt it goes on with, NULL when it returns
\* before looking for a script editor
insert_clicked(asst) ==
    IF NonEmpty(asst.last_insert) THEN asst.last_insert
    ELSE IF NonEmpty(asst.last_reply) THEN asst.last_reply
    ELSE NULL

Next ==
    \/ show_ai_assistant
    \/ ai_destroyed
    \/ \E inp \in AskInputs : ask_clicked(inp)
    \/ \E j \in DOMAIN jobs : job_thread(j, Worlds(jobs[j].provider))
    \/ \E j \in DOMAIN jobs : job_complete_idle(j)

Spec == Init /\ [][Next]_vars

\* the sessions opened in one run
Sessions == 1..MaxSessions

\* the jobs outstanding (created, their callback not yet run) of session sid
Outstanding(js, sid) == {j \in DOMAIN js : js[j].sid = sid}

\* C2: a session never has more than one job outstanding; an ask that is
\* rejected creates no job and changes no session state; the busy flag of a
\* session is set only when a job of that session is created and cleared
\* only by the completion callback of a job of that session
OneJobPerSession ==
    [][/\ \A sid \in Sessions : Cardinality(Outstanding(jobs', sid)) <= 1
       /\ (last_op' = "ask_rejected") =>
              UNCHANGED <<assts, global_asst, jobs, njobs, nsessions, leaked>>
       /\ \A a \in Addr :
              (assts[a].sid # 0 /\ assts'[a].sid = assts[a].sid) =>
                 /\ (~assts[a].busy /\ assts'[a].busy) =>
                        \E j \in DOMAIN jobs' \ DOMAIN jobs : jobs'[j].sid = assts[a].sid
                 /\ (assts[a].busy /\ ~assts'[a].busy) =>
                        \E j \in DOMAIN jobs \ DOMAIN jobs' : jobs[j].sid = assts[a].sid
      ]_vars

\* C3: the completion callback of a job changes no AiAssistant other than
\* the live one, and that one only if it is the session that created the job
StaleCallbackInert ==
    [][\A j \in DOMAIN jobs \ DOMAIN jobs' : \A a \in Addr :
          (assts'[a] # assts[a]) => (a = global_asst /\ assts[a].sid = jobs[j].sid)
      ]_vars

\* C4: nothing a completed job owned remains allocated
JobResourcesReleased == leaked = {}

-----------------------------------------------------------------------------
(* The agent loop of one job on its own: the state after the window was
   shown and one click was accepted, then the rounds of job_thread *)

InitJob ==
    /\ \E inp \in JobInputs :
          jobs = [j \in {1} |-> NewJob(1, 1, inp)]
    /\ assts = [a \in Addr |-> IF a = 1 THEN set_busy(NewAsst(1)) ELSE FreedAsst]
    /\ global_asst = 1
    /\ nsessions = 1
    /\ njobs = 1
    /\ leaked = {}
    /\ last_op = "ask"
    /\ probe = ProbeIdle

NextJob == job_thread(1, JobWorlds(jobs[1].provider))

SpecJob == InitJob /\ [][NextJob]_vars

\* the invocation c returned a reply and no error
CallOk(c) == c.res.err = NoErr /\ ~IsNull(c.res.reply)

\* the decoded reply of the successful invocation c
Decoded(c) == parse_llm_json_reply(c.res.reply[1])

\* the display rendering of the reply of the successful invocation c
Rendered(c) == Some(format_llm_reply_for_display(Decoded(c), c.res.reply))

\* the last invocation of job
LastCall(job) == job.calls[Len(job.calls)]

\* the non-empty proposed_insert of the successful invocation c, or NULL
Proposed(c) ==
    IF CallOk(c) /\ NonEmpty(Decoded(c).proposed_insert)
    THEN Decoded(c).proposed_insert ELSE NULL

\* the rounds of job: the invocations are bounded, the tools run at most
\* once and only after a first reply that asks for them, the second reply
\* is final
RoundsOf(job) ==
    /\ Len(job.calls) <= (IF job.tools_enabled THEN 2 ELSE 1)
    /\ (job.pc = "posted") => Len(job.calls) >= 1
    /\ (job.pc = "posted" /\ ~job.tools_enabled) => Len(job.calls) = 1
    /\ job.tool_runs <= 1
    /\ (Len(job.calls) >= 1) => job.calls[1].tool_runs = 0
    /\ (job.tool_runs = 1) =>
           /\ Len(job.calls) >= 1
           /\ CallOk(job.calls[1])
           /\ Len(Decoded(job.calls[1]).tool_calls) > 0
    /\ (Len(job.calls) = 2) =>
           /\ job.pc = "posted"
           /\ CallOk(job.calls[2]) => job.reply = Rendered(job.calls[2])

\* C1: job_thread invokes the provider at most twice with tool use enabled
\* and exactly once with it disabled, executes the tools at most once and
\* only after round 1, and finalizes the reply of round 2 even if it asks
\* for tools again
RoundsBounded == \A j \in DOMAIN jobs : RoundsOf(jobs[j])

\* a second reply that still asks for tools was finalized
RoundsBoundedSeen ==
    \E j \in DOMAIN jobs :
        /\ jobs[j].pc = "posted" /\ Len(jobs[j].calls) = 2
        /\ CallOk(jobs[j].calls[2])
        /\ Len(Decoded(jobs[j].calls[2]).tool_calls) > 0
        /\ jobs[j].tool_runs = 1

\* the invocation i of job, if it failed, ended the loop with its error text
FailureEnds(job, i) ==
    (~CallOk(job.calls[i])) =>
        /\ i = Len(job.calls)
        /\ job.pc = "posted"
        /\ ~IsNull(job.reply)
        /\ job.reply = (IF ~IsNull(job.calls[i].res.errmsg)
                        THEN job.calls[i].res.errmsg ELSE Some("LLM call failed"))

\* C5: an invocation that returns an error or no reply is the last one of
\* its job, and the job's final reply is the error text, or "LLM call
\* failed" without one, and never NULL
ErrorStops ==
    \A j \in DOMAIN jobs : \A i \in 1..Len(jobs[j].calls) : FailureEnds(jobs[j], i)

\* the second invocation of a job failed
ErrorStopsSeen ==
    \E j \in DOMAIN jobs :
        /\ Len(jobs[j].calls) = 2 /\ ~CallOk(jobs[j].calls[2])
        /\ jobs[j].reply = jobs[j].calls[2].res.errmsg

\* the latest non-empty proposed_insert among the replies of job
LatestProposed(job) ==
    IF Len(job.calls) = 2 /\ ~IsNull(Proposed(job.calls[2])) THEN Proposed(job.calls[2])
    ELSE IF Len(job.calls) >= 1 THEN Proposed(job.calls[1])
    ELSE NULL

\* C6 as stated: with tool use enabled, a non-empty proposed_insert of the
\* decoded reply of either round is the job's insertion text, round 2
\* overwriting round 1
InsertRetained ==
    \A j \in DOMAIN jobs :
        (jobs[j].pc = "posted" /\ jobs[j].tools_enabled
            /\ ~IsNull(LatestProposed(jobs[j])))
        => jobs[j].insert_text = LatestProposed(jobs[j])

\* C6: with tool use enabled, the job's insertion text is the non-empty
\* proposed_insert of the reply that ends the loop (a round-1 reply without
\* tool calls, or the round-2 reply); the proposed_insert of a round-1 reply
\* that asks for tools is dropped, and there is no insertion text when the
\* last reply has none or the last invocation failed
InsertFromFinal ==
    \A j \in DOMAIN jobs :
        (jobs[j].pc = "posted" /\ jobs[j].tools_enabled)
        => jobs[j].insert_text = Proposed(LastCall(jobs[j]))

\* a round-1 reply that asked for tools proposed a script, round 2 proposed
\* none, and the job has no insertion text
InsertFromFinalSeen ==
    \E j \in DOMAIN jobs :
        /\ jobs[j].pc = "posted" /\ Len(jobs[j].calls) = 2
        /\ ~IsNull(Proposed(jobs[j].calls[1]))
        /\ CallOk(jobs[j].calls[2])
        /\ IsNull(Proposed(jobs[j].calls[2]))
        /\ IsNull(jobs[j].insert_text)

\* C7 as stated: whenever the loop ends on a reply, with tool use enabled
\* or not, the final reply is the rendering of the decoded reply and its
\* proposed_insert is captured
FinalizeDecodes ==
    \A j \in DOMAIN jobs :
        (jobs[j].pc = "posted" /\ CallOk(LastCall(jobs[j])))
        => /\ jobs[j].reply = Rendered(LastCall(jobs[j]))
           /\ jobs[j].insert_text = Proposed(LastCall(jobs[j]))

\* C7: when the loop ends on a reply with tool use enabled, the final reply
\* is the rendering of the decoded reply and its proposed_insert is
\* captured; with tool use disabled the final reply is the provider's text
\* as it came and no insertion text is captured
FinalizeByMode ==
    \A j \in DOMAIN jobs :
        (jobs[j].pc = "posted" /\ CallOk(LastCall(jobs[j])))
        => IF jobs[j].tools_enabled
           THEN /\ jobs[j].reply = Rendered(LastCall(jobs[j]))
                /\ jobs[j].insert_text = Proposed(LastCall(jobs[j]))
           ELSE /\ jobs[j].reply = LastCall(jobs[j]).res.reply
                /\ IsNull(jobs[j].insert_text)

\* with tool use disabled a reply in the JSON schema was kept undecoded
FinalizeByModeSeen ==
    \E j \in DOMAIN jobs :
        /\ jobs[j].pc = "posted" /\ ~jobs[j].tools_enabled
        /\ CallOk(LastCall(jobs[j]))
        /\ NonEmpty(Decoded(LastCall(jobs[j])).assistant_text)
        /\ ~IsNull(Proposed(LastCall(jobs[j])))
        /\ jobs[j].reply # Rendered(LastCall(jobs[j]))

\* the transcript of the tools the first reply of job asked for
RoundOneTranscript(job) == execute_tool_calls(Decoded(job.calls[1]), job.snapshot)

\* the second invocation of job came after the tools of round 1, with the
\* job's prompt, their transcript and the closing instruction
SecondRound(job) ==
    /\ CallOk(job.calls[1])
    /\ job.calls[1].tool_runs = 0
    /\ job.calls[1].prompt = job.prompt
    /\ job.calls[2].tool_runs = 1
    /\ ~IsNull(RoundOneTranscript(job))
    /\ Len(RoundOneTranscript(job)[1]) > 0
    /\ job.calls[2].prompt =
           job.prompt \o "\n\nTool results:\n" \o RoundOneTranscript(job)[1]
                      \o "\n\nNow respond using the JSON schema.\n"
    /\ job.calls[2].prompt # job.prompt

\* C8: a round-2 invocation happens after the tool execution of round 1,
\* and its prompt is the job's prompt, then the whole non-empty round-1
\* transcript, then the closing instruction; never the bare prompt
RoundTwoPrompt ==
    \A j \in DOMAIN jobs : (Len(jobs[j].calls) = 2) => SecondRound(jobs[j])

\* a second invocation was made
RoundTwoPromptSeen ==
    \E j \in DOMAIN jobs :
        /\ Len(jobs[j].calls) = 2
        /\ Len(Decoded(jobs[j].calls[1]).tool_calls) = 2
        /\ jobs[j].calls[2].tool_runs = 1

-----------------------------------------------------------------------------
(* The decoder and the tool executor on their own: a provider reply with k
   tool calls and a snapshot, then parse_llm_json_reply, then
   execute_tool_calls *)

\* the number of tool calls in one reply
MaxCalls == 10

\* a script editor holding more than script_full_string keeps: 32000
\* characters after the cut at src/gui/ai_assistant.c:323
Twice(s) == s \o s

BigScript ==
    Twice(Twice(Twice(Twice(Twice(Twice(Twice(Twice(
        "ols y 0 x1 x2 x3 --quiet\nols y 0 x1 x2 x4 --quiet\n"
        \o "ols y 0 x1 x3 x4 --quiet\nols y 0 x2 x3 x4 --quiet\n"
        \o "ols y 0 x1 x2 x3 --robust"))))))))

\* a working session with a long script, all of it selected
AppBig ==
    [AppWork EXCEPT !.script_selection = BigScript, !.script_full = BigScript]

\* the tool calls a provider may write: the six tools, with and without
\* arguments, and a tool that does not exist
CallTexts ==
    <<"{\"name\":\"get_dataset_summary\"}",
      "{\"name\":\"get_script_full\",\"args\":{}}",
      "{\"name\":\"run_script\",\"args\":{\"code\":\"quit\"}}",
      "{\"name\":\"get_last_model_summary\",\"args\":{\"style\":\"full\"}}",
      "{\"name\":\"get_last_error\"}",
      "{\"name\":\"get_command_log_tail\",\"args\":{\"n_lines\":2}}",
      "{\"name\":\"get_last_model_summary\",\"args\":{\"style\":\"simple\"}}",
      "{\"name\":\"get_script_selection\"}",
      "{\"name\":\"get_last_model_summary\"}">>

\* the names in CallTexts
CallNames ==
    <<"get_dataset_summary", "get_script_full", "run_script",
      "get_last_model_summary", "get_last_error", "get_command_log_tail",
      "get_last_model_summary", "get_script_selection", "get_last_model_summary">>

RECURSIVE CallList(_, _, _)
\* the calls i..k of the array, the first one taken at offset off of CallTexts
CallList(i, k, off) ==
    IF i > k THEN ""
    ELSE (IF i > 1 THEN "," ELSE "")
         \o CallTexts[((off + i - 1) % Len(CallTexts)) + 1]
         \o CallList(i + 1, k, off)

\* a provider reply that asks for k tools
ToolReply(k, off) ==
    "{\"assistant_text\":\"checking\",\"tool_calls\":[" \o CallList(1, k, off) \o "]}"

\* a working session whose script editor and command log are empty:
\* gtk_text_buffer_get_text and get_logfile_content return ""
AppBlank == [AppWork EXCEPT !.script_full = "", !.command_log = ""]

ToolApps == {AppEmpty, AppWork, AppBig, AppBlank}

\* the snapshot of a working session in which gretl_print_steal_buffer gave
\* last_model_summary_string no buffer
SnapNoModel ==
    [take_snapshot(AppWork) EXCEPT !.last_model_simple = NULL, !.last_model_full = NULL]

\* the snapshot of a session with a long script of which the first n
\* characters are selected
EdgeSnap(n) ==
    [take_snapshot(AppBig) EXCEPT !.script_selection = Some(SubSeq(BigScript, 1, n))]

\* the snapshots the tools are executed on; with the selections of 7470 and
\* 7471 characters the blocks of the first eight calls of CallTexts are
\* 40000 and 40001 characters long
ToolSnaps ==
    {take_snapshot(app) : app \in ToolApps}
        \cup {SnapNoModel, EdgeSnap(7470), EdgeSnap(7471)}

InitTools ==
    /\ InitSched
    /\ \E k \in 0..MaxCalls, off \in 0..(Len(CallTexts) - 1), snap \in ToolSnaps :
          probe = [pc   |-> "text",
                   k    |-> k,
                   off  |-> off,
                   json |-> ToolReply(k, off),
                   snap |-> snap,
                   r    |-> [assistant_text |-> NULL, proposed_insert |-> NULL,
                             tool_calls |-> <<>>],
                   out  |-> NULL]

\* r = parse_llm_json_reply(reply), as in job_thread
tool_decode ==
    /\ probe.pc = "text"
    /\ probe' = [probe EXCEPT !.pc = "decoded", !.r = parse_llm_json_reply(probe.json)]
    /\ UNCHANGED sched

\* tool_results = execute_tool_calls(r, &job->snapshot), as in job_thread
tool_execute ==
    /\ probe.pc = "decoded"
    /\ probe' = [probe EXCEPT !.pc = "done", !.out = execute_tool_calls(probe.r, probe.snap)]
    /\ UNCHANGED sched

NextTools == tool_decode \/ tool_execute

SpecTools == InitTools /\ [][NextTools]_vars

\* the number of blocks for k calls
BlockCount(k) == IF k > 8 THEN 8 ELSE k

\* the text b is a block of the tool name
Framed(b, name) ==
    /\ Len(b) >= Len("--- tool:" \o name \o " ---\n") + Len("--- end ---\n")
    /\ SubSeq(b, 1, Len("--- tool:" \o name \o " ---\n")) = "--- tool:" \o name \o " ---\n"
    /\ SubSeq(b, Len(b) - Len("--- end ---\n") + 1, Len(b)) = "--- end ---\n"

RECURSIVE Blocks(_, _, _)
\* the blocks of the calls 1..n, one after the other
Blocks(calls, snap, n) ==
    IF n = 0 THEN ""
    ELSE Blocks(calls, snap, n - 1) \o append_tool_block("", calls[n], snap)

\* the transcript t as returned: cut at TranscriptCap, the marker after it
Returned(t) ==
    IF Len(t) > TranscriptCap
    THEN SubSeq(t, 1, TranscriptCap) \o "\n...[truncated]...\n" ELSE t

\* the decoded calls are those of the source array, in its order
CallsInOrder(p) ==
    /\ Len(p.r.tool_calls) = p.k
    /\ \A i \in 1..p.k :
           p.r.tool_calls[i].name = CallNames[((p.off + i - 1) % Len(CallNames)) + 1]

\* the output for the decoded calls: nothing for none, else the blocks of
\* the first eight in order, each one framed
FramedOutput(p) ==
    IF Len(p.r.tool_calls) = 0 THEN IsNull(p.out)
    ELSE /\ ~IsNull(p.out)
         /\ p.out[1] = Returned(Blocks(p.r.tool_calls, p.snap,
                                        BlockCount(Len(p.r.tool_calls))))
         /\ \A i \in 1..BlockCount(Len(p.r.tool_calls)) :
                Framed(append_tool_block("", p.r.tool_calls[i], p.snap),
                       p.r.tool_calls[i].name)

\* C9: for a reply with k tool calls execute_tool_calls returns nothing when
\* k = 0, and otherwise the framed blocks of the first min(k, 8) calls, one
\* per call in the order of the source array (as execute_tool_calls returns
\* every transcript: cut at 40000 characters); calls after the eighth
\* produce no output
FirstEightFramed ==
    (probe.pc = "done") => (CallsInOrder(probe) /\ FramedOutput(probe))

\* a reply with ten calls was executed, and its transcript not cut
FirstEightFramedSeen ==
    /\ probe.pc = "done"
    /\ Len(probe.r.tool_calls) = 10
    /\ ~IsNull(probe.out)
    /\ Len(probe.out[1]) <= TranscriptCap
    /\ probe.r.tool_calls[9].name = "run_script"

\* the text s ending in a newline, unless it is empty
Terminated(s) == IF s = "" \/ LastChar(s) = "\n" THEN s ELSE s \o "\n"

\* the body for the snapshot field f
FieldBody(f) == IF IsNull(f) THEN "(unavailable)\n" ELSE Terminated(f[1])

\* the fixed table: the body of the block of the call tc
TableBody(tc, snap) ==
    CASE tc.name = "get_dataset_summary"  -> FieldBody(snap.dataset)
      [] tc.name = "get_last_error"       -> FieldBody(snap.last_error)
      [] tc.name = "get_script_selection" -> FieldBody(snap.script_selection)
      [] tc.name = "get_script_full"      -> FieldBody(snap.script_full)
      [] tc.name = "get_last_model_summary" ->
            IF tc.style = Some("full") THEN FieldBody(snap.last_model_full)
            ELSE FieldBody(snap.last_model_simple)
      [] tc.name = "get_command_log_tail" ->
            IF IsNull(snap.command_log) THEN "(unavailable)\n"
            ELSE Terminated(tail_n_lines(snap.command_log[1], tc.n_lines))
      [] OTHER -> "(unavailable)\n"

RECURSIVE TableBlocks(_, _, _)
\* the blocks of the calls 1..n with the bodies of the table
TableBlocks(calls, snap, n) ==
    IF n = 0 THEN ""
    ELSE TableBlocks(calls, snap, n - 1)
         \o "--- tool:" \o calls[n].name \o " ---\n"
         \o TableBody(calls[n], snap) \o "--- end ---\n"

\* C10: the body of every block is the one the fixed table gives for the
\* tool name: the like-named snapshot field for get_dataset_summary,
\* get_last_error, get_script_selection and get_script_full,
\* last_model_full exactly when style is "full" and last_model_simple
\* otherwise for get_last_model_summary, and "(unavailable)" for a name
\* that is none of the six, after which the remaining calls are still
\* executed
BodiesFromTable ==
    (probe.pc = "done" /\ Len(probe.r.tool_calls) > 0) =>
        /\ ~IsNull(probe.out)
        /\ probe.out[1] = Returned(TableBlocks(probe.r.tool_calls, probe.snap,
                                                BlockCount(Len(probe.r.tool_calls))))

\* an unknown tool was followed by get_last_model_summary with the style
\* "full", in a session whose two summaries differ
BodiesFromTableSeen ==
    /\ probe.pc = "done"
    /\ Len(probe.r.tool_calls) >= 2
    /\ probe.r.tool_calls[1].name = "run_script"
    /\ probe.r.tool_calls[2].name = "get_last_model_summary"
    /\ probe.r.tool_calls[2].style = Some("full")
    /\ probe.snap.last_model_full # probe.snap.last_model_simple
    /\ ~IsNull(probe.out)
    /\ Len(probe.out[1]) <= TranscriptCap

\* the snapshot field the recognized tool of the call tc reads
FieldRead(tc, snap) ==
    CASE tc.name = "get_dataset_summary"  -> snap.dataset
      [] tc.name = "get_last_error"       -> snap.last_error
      [] tc.name = "get_script_selection" -> snap.script_selection
      [] tc.name = "get_script_full"      -> snap.script_full
      [] tc.name = "get_command_log_tail" -> snap.command_log
      [] tc.name = "get_last_model_summary" ->
            IF tc.style = Some("full") THEN snap.last_model_full
            ELSE snap.last_model_simple

Recognized(tc) ==
    tc.name \in {"get_dataset_summary", "get_last_error", "get_script_selection",
                 "get_script_full", "get_command_log_tail", "get_last_model_summary"}

\* the body of the block of tc when a missing and an empty field both give
\* "(unavailable)"
BodyOrUnavailable(tc, snap) ==
    IF Recognized(tc) /\ (IsNull(FieldRead(tc, snap)) \/ FieldRead(tc, snap) = Some(""))
    THEN "(unavailable)\n"
    ELSE TableBody(tc, snap)

RECURSIVE BlocksOrUnavailable(_, _, _)
BlocksOrUnavailable(calls, snap, n) ==
    IF n = 0 THEN ""
    ELSE BlocksOrUnavailable(calls, snap, n - 1)
         \o "--- tool:" \o calls[n].name \o " ---\n"
         \o BodyOrUnavailable(calls[n], snap) \o "--- end ---\n"

\* C11: the block of a recognized tool whose snapshot field is missing
\* (NULL) or the empty string has the body "(unavailable)", and the
\* executor returns a transcript whatever the fields are
UnavailableWhenMissingOrEmpty ==
    (probe.pc = "done" /\ Len(probe.r.tool_calls) > 0) =>
        /\ ~IsNull(probe.out)
        /\ probe.out[1] = Returned(BlocksOrUnavailable(probe.r.tool_calls, probe.snap,
                                                       BlockCount(Len(probe.r.tool_calls))))

\* the blocks of the executed calls of the probe p, before any cut
Untruncated(p) ==
    TableBlocks(p.r.tool_calls, p.snap, BlockCount(Len(p.r.tool_calls)))

\* the text t ends with the truncation marker
EndsWithMarker(t) ==
    /\ Len(t) >= Len("\n...[truncated]...\n")
    /\ SubSeq(t, Len(t) - Len("\n...[truncated]...\n") + 1, Len(t)) = "\n...[truncated]...\n"

\* C12: the transcript returned is at most 40000 characters plus the marker;
\* when the blocks exceed 40000 characters it is their first 40000
\* characters followed by the marker, otherwise the blocks unchanged and
\* without a marker
TranscriptBounded ==
    (probe.pc = "done" /\ ~IsNull(probe.out)) =>
        /\ Len(probe.out[1]) <= 40000 + Len("\n...[truncated]...\n")
        /\ IF Len(Untruncated(probe)) > 40000
           THEN probe.out[1] = SubSeq(Untruncated(probe), 1, 40000) \o "\n...[truncated]...\n"
           ELSE /\ probe.out[1] = Untruncated(probe)
                /\ ~EndsWithMarker(probe.out[1])

\* blocks of 40001 characters were cut
TranscriptBoundedSeen ==
    /\ probe.pc = "done" /\ ~IsNull(probe.out)
    /\ Len(Untruncated(probe)) = 40001
    /\ Len(probe.out[1]) = 40019
    /\ EndsWithMarker(probe.out[1])

-----------------------------------------------------------------------------
(* get_command_log_tail on its own: a reply with one call of the tool, its
   args in several forms, and command logs with and without a newline at
   their end; then the decoder and the executor as above *)

RECURSIVE LogLines(_, _)
\* a command log of the lines i..m, each ended by a newline
LogLines(i, m) ==
    IF i > m THEN "" ELSE "cmd " \o ToString(i) \o "\n" \o LogLines(i + 1, m)

\* a[1] is what the provider wrote after the name of the tool, a[2] the
\* number of lines it asks for by that (50: the default); the logs have 0,
\* 1, 2, 10 and 60 lines, and get_logfile_content need not end its text
\* with a newline
InitTail ==
    /\ InitSched
    /\ \E a \in {<<"", 50>>,
                 <<",\"args\":{}", 50>>,
                 <<",\"args\":{\"n_lines\":3}", 3>>,
                 <<",\"args\":{\"n_lines\": 1}", 1>>,
                 <<",\"args\":{\"n_lines\":10}", 10>>,
                 <<",\"args\":{\"n_lines\":0}", 50>>,
                 <<",\"args\":{\"n_lines\":-2}", 50>>,
                 <<",\"args\":{\"n_lines\":\"3\"}", 50>>,
                 <<",\"args\":{\"n_lines\":2.5}", 50>>,
                 <<",\"args\":{\"n_lines\":null}", 50>>},
          log \in {"", LogLines(1, 2), LogLines(1, 10), LogLines(1, 60),
                   "print y", LogLines(1, 9) \o "cmd 10"} :
          probe = [pc   |-> "text",
                   k    |-> 1,
                   off  |-> 5,
                   asked |-> a[2],
                   json |-> "{\"tool_calls\":[{\"name\":\"get_command_log_tail\""
                            \o a[1] \o "}]}",
                   snap |-> [take_snapshot(AppWork) EXCEPT !.command_log = Some(log)],
                   r    |-> [assistant_text |-> NULL, proposed_insert |-> NULL,
                             tool_calls |-> <<>>],
                   out  |-> NULL]

SpecTail == InitTail /\ [][NextTools]_vars

\* the positions of the newlines of s
Newlines(s) == {i \in 1..Len(s) : At(s, i) = "\n"}

\* the number of lines of the text s: its newlines, and one more for a last
\* line without a newline
LineCount(s) ==
    Cardinality(Newlines(s)) + (IF Len(s) > 0 /\ LastChar(s) # "\n" THEN 1 ELSE 0)

\* the position after the m-th newline of s
AfterNewlines(s, m) ==
    1 + CHOOSE i \in Newlines(s) : Cardinality({j \in Newlines(s) : j <= i}) = m

\* the last n lines of s, all of s when it has no more than n
LastLines(s, n) ==
    IF LineCount(s) <= n THEN s
    ELSE From(s, AfterNewlines(s, LineCount(s) - n))

\* C13: get_command_log_tail gives exactly the last n_lines lines of
\* snapshot.command_log, the whole log when it has fewer, whether the log
\* ends with a newline or not; n_lines is the integer of args.n_lines, 50
\* when there is none or it is no integer, and 50 for a value <= 0
TailIsLastLines ==
    (probe.pc = "done") =>
        probe.out = Some("--- tool:get_command_log_tail ---\n"
                         \o Terminated(LastLines(probe.snap.command_log[1], probe.asked))
                         \o "--- end ---\n")

-----------------------------------------------------------------------------
(* The entry points on their own: gretl_llm_complete_with_error and
   gretl_llm_provider_from_string applied to inputs drawn at the start, and
   the Ask button of a window whose worker is not scheduled *)

RECURSIVE Doubled(_, _)
\* s doubled k times
Doubled(s, k) == IF k = 0 THEN s ELSE Doubled(s \o s, k - 1)

\* a run in which both CLIs would answer "ok", on the host h
WorldOn(h) ==
    [WorldReply("GRETL_LLM_GEMINI", "ok") EXCEPT !.host = h, !.file = Some("ok")]

\* hosts that differ in what resolves the executable: the override
\* variables, the default-provider selector, the built-in paths, the search
\* path
ResolveHosts ==
    {[env  |-> [NoEnv EXCEPT !.GRETL_CODEX_BIN = cb, !.GRETL_GEMINI_BIN = gb,
                             !.GRETL_LLM_PROVIDER = sel],
      exec |-> ex, path |-> pa] :
        cb \in {NULL, Some(""), Some("/opt/codex")},
        gb \in {NULL, Some("/opt/gemini")},
        sel \in {NULL, Some(""), Some("gemini"), Some("NONE"), Some("claude")},
        ex \in {{}, {default_codex_bin}, {default_codex_bin, default_gemini_bin}},
        pa \in {{}, {"timeout"}, {"codex", "gemini", "timeout"}}}

\* hosts that differ in GRETL_LLM_TIMEOUT_SEC and in having timeout(1);
\* t[2] is the number the text t[1] stands for (0: none)
TimeoutTexts ==
    {<<NULL, 0>>, <<Some(""), 0>>, <<Some("abc"), 0>>, <<Some("0"), 0>>,
     <<Some("-5"), 0 - 5>>, <<Some("1"), 1>>, <<Some("60"), 60>>,
     <<Some("3600"), 3600>>, <<Some("3601"), 3601>>, <<Some("86400"), 86400>>,
     <<Some("45s"), 45>>, <<Some("90 seconds"), 90>>, <<Some(" 30"), 30>>,
     <<Some("+7"), 7>>, <<Some("2147483647"), 2147483647>>,
     <<Some("s10"), 0>>}

TimeoutHosts ==
    {[HostPath EXCEPT !.env.GRETL_LLM_TIMEOUT_SEC = t[1], !.path = pa] :
        t \in TimeoutTexts, pa \in {{"codex", "gemini"}, {"codex", "gemini", "timeout"}}}

\* hosts that differ in the two unsafe-mode variables
UnsafeHosts ==
    {[HostPath EXCEPT !.env.GRETL_LLM_UNSAFE = u, !.env.GRETL_CODEX_DANGEROUS = d] :
        u \in {NULL, Some(""), Some("0"), Some("1"), Some("no")},
        d \in {NULL, Some(""), Some("0"), Some("yes")}}

\* runs that differ in the exit code of the child and in what it wrote
ExitWorlds ==
    {[WorldOn(HostPath) EXCEPT !.exit = code, !.stderr = e, !.stdout = o] :
        code \in {0, 1, 2, 124, 125, 127, 137, 255},
        e \in {"", "boom", "codex timed out (timed out; set GRETL_LLM_TIMEOUT_SEC)"},
        o \in {"", "{\"response\": \"ok\"}"}}

\* runs that differ in the --output-last-message file codex leaves: none,
\* empty, short, of GRETL_LLM_MAX_REPLY bytes and one more
FileWorlds ==
    {[WorldOn(HostPath) EXCEPT !.file = f, !.stderr = e] :
        f \in {NULL, Some(""), Some("x"), Some(Doubled("x", 21)),
               Some(Doubled("x", 21) \o "y")},
        e \in {"", "warn"}}

LLMWorlds ==
    {WorldOn(h) : h \in ResolveHosts \cup TimeoutHosts \cup UnsafeHosts}
        \cup ExitWorlds \cup FileWorlds \cup {WorldNoTmp, WorldNoSpawn}

Providers == {"GRETL_LLM_NONE", "GRETL_LLM_CODEX", "GRETL_LLM_GEMINI"}

\* the names gretl_llm_provider_from_string is given
ProviderNames ==
    {NULL} \cup {Some(n) : n \in {"", "codex", "gemini", "none", "CODEX", "Gemini",
                                  "nOnE", "claude", "codex ", "gemin", "codexx",
                                  "code", "openai", "codex|gemini"}}

\* the calls with a prompt, and those without one
LLMCalls ==
    {[fn |-> "gretl_llm_complete_with_error", provider |-> provider,
      prompt |-> Some("Why did ols fail?"), w |-> w] :
        provider \in Providers, w \in LLMWorlds}
    \cup
    {[fn |-> "gretl_llm_complete", provider |-> provider,
      prompt |-> Some("Why did ols fail?"), w |-> w] :
        provider \in Providers, w \in ExitWorlds \cup {WorldOn(HostBare)}}
    \cup
    {[fn |-> fn, provider |-> provider, prompt |-> prompt, w |-> w] :
        fn \in {"gretl_llm_complete", "gretl_llm_complete_with_error"},
        provider \in Providers, prompt \in {NULL, Some("")},
        w \in {WorldOn(HostPath), WorldOn(HostBare), WorldNoTmp, WorldNoSpawn}}

InitLLM ==
    /\ InitSched
    /\ \/ \E c \in LLMCalls :
             probe = [pc |-> "call", fn |-> c.fn, provider |-> c.provider,
                      prompt |-> c.prompt, w |-> c.w]
       \/ \E s \in ProviderNames : probe = [pc |-> "name", s |-> s]

\* err = gretl_llm_complete(provider, prompt, &reply)
llm_complete ==
    /\ probe.pc = "call"
    /\ probe.fn = "gretl_llm_complete"
    /\ probe' = [pc |-> "returned", fn |-> probe.fn, provider |-> probe.provider,
                 prompt |-> probe.prompt, w |-> probe.w,
                 res |-> gretl_llm_complete(probe.provider, probe.prompt, probe.w)]
    /\ UNCHANGED sched

\* err = gretl_llm_complete_with_error(provider, prompt, &reply, &errmsg)
llm_complete_with_error ==
    /\ probe.pc = "call"
    /\ probe.fn = "gretl_llm_complete_with_error"
    /\ probe' = [pc |-> "returned", fn |-> probe.fn, provider |-> probe.provider,
                 prompt |-> probe.prompt, w |-> probe.w,
                 res |-> gretl_llm_complete_with_error(probe.provider, probe.prompt,
                                                       probe.w)]
    /\ UNCHANGED sched

\* err = gretl_llm_provider_from_string(s, &p)
llm_provider_from_string ==
    /\ probe.pc = "name"
    /\ probe' = [pc |-> "parsed", s |-> probe.s,
                 res |-> gretl_llm_provider_from_string(probe.s)]
    /\ UNCHANGED sched

NextLLM ==
    \/ llm_complete
    \/ llm_complete_with_error
    \/ llm_provider_from_string
    \/ show_ai_assistant
    \/ \E inp \in AskInputs : ask_clicked(inp)

SpecLLM == InitLLM /\ [][NextLLM]_vars

-----------------------------------------------------------------------------
(* Claims about the invoker, under SpecLLM *)

\* the call of the probe returned after its child process exited
Exited == probe.pc = "returned" /\ probe.res.argv # <<>> /\ probe.w.spawn

\* the first line of the message of the result res ("" when it has none)
FirstLine(res) ==
    IF IsNull(res.errmsg) THEN ""
    ELSE IF strstr(res.errmsg[1], "\n", 1) = 0 THEN res.errmsg[1]
    ELSE SubSeq(res.errmsg[1], 1, strstr(res.errmsg[1], "\n", 1) - 1)

\* the error kinds of the exit classification, as a caller can tell them:
\* both come with E_EXTERNAL; the first line of the message says "timed
\* out" and names the variable for Timeout, and says "failed" without the
\* variable for ProviderFailed
IsTimeout(res) ==
    /\ res.err = "E_EXTERNAL"
    /\ strstr(FirstLine(res), "timed out", 1) # 0
    /\ strstr(FirstLine(res), "GRETL_LLM_TIMEOUT_SEC", 1) # 0

IsProviderFailed(res) ==
    /\ res.err = "E_EXTERNAL"
    /\ strstr(FirstLine(res), " failed", 1) # 0
    /\ strstr(FirstLine(res), "GRETL_LLM_TIMEOUT_SEC", 1) = 0

\* C14: a child that exits with 124 or 137 gives the Timeout error, whose
\* text names GRETL_LLM_TIMEOUT_SEC, and not ProviderFailed; every other
\* nonzero exit gives ProviderFailed and not Timeout; exit 0 gives neither
ExitClassified ==
    Exited =>
        /\ IsTimeout(probe.res) <=> probe.w.exit \in {124, 137}
        /\ IsProviderFailed(probe.res) <=> probe.w.exit \notin {0, 124, 137}

\* a child killed by timeout(1), with text on stderr that a plain failure
\* also shows
ExitClassifiedSeen ==
    /\ Exited
    /\ probe.w.exit = 137
    /\ probe.w.stderr = "boom"
    /\ probe.provider = "GRETL_LLM_CODEX"
    /\ IsTimeout(probe.res)

\* the prompt of the probe's call is NULL or empty
NoPrompt == IsNull(probe.prompt) \/ probe.prompt[1] = ""

\* C15: gretl_llm_complete and gretl_llm_complete_with_error with a NULL or
\* empty prompt return E_DATA with the text "Missing prompt" and a NULL
\* reply, having looked for no executable, made no temporary file and
\* started no process; and a click on Ask with an empty prompt makes no job
\* and does not mark the session busy
MissingPromptRejected ==
    /\ (probe.pc = "returned" /\ NoPrompt) =>
           probe.res = [err |-> "E_DATA", reply |-> NULL,
                        errmsg |-> Some("Missing prompt"),
                        argv |-> <<>>, tmp_made |-> FALSE, tmp_left |-> FALSE]
    /\ \A j \in DOMAIN jobs, inp \in AskInputs :
           jobs[j].prompt # build_full_prompt(inp, "")
    /\ \A a \in Addr : assts[a].busy => \E j \in DOMAIN jobs : jobs[j].asst = a

\* a call without a prompt on a host without the executables returned, and
\* the window took a click on Ask with an empty prompt
MissingPromptRejectedSeen ==
    /\ probe.pc = "returned"
    /\ IsNull(probe.prompt)
    /\ probe.w = WorldOn(HostBare)
    /\ probe.res.errmsg = Some("Missing prompt")
    /\ last_op = "ask_rejected"
    /\ global_asst # 0
    /\ ~assts[global_asst].busy
    /\ jobs = <<>>

\* the provider whose executable the probe's call looks for
Resolving ==
    IF probe.provider # "GRETL_LLM_NONE" THEN probe.provider
    ELSE IF IsNull(probe.w.host.env.GRETL_LLM_PROVIDER)
            \/ probe.w.host.env.GRETL_LLM_PROVIDER[1] \in {"", "claude"}
         THEN "GRETL_LLM_CODEX"
    ELSE IF probe.w.host.env.GRETL_LLM_PROVIDER[1] = "gemini" THEN "GRETL_LLM_GEMINI"
    ELSE "GRETL_LLM_NONE"

\* the override variable of the provider pr, its built-in path and the name
\* looked up on the search path ("" for a provider that has none)
OverrideVar(pr) ==
    CASE pr = "GRETL_LLM_CODEX" -> "GRETL_CODEX_BIN"
      [] pr = "GRETL_LLM_GEMINI" -> "GRETL_GEMINI_BIN"
      [] OTHER -> ""

\* the executable the precedence rule gives for pr on the host h: <<path>>,
\* or <<>> when nothing resolves
Precedence(pr, h) ==
    IF pr = "GRETL_LLM_CODEX"
    THEN IF h.env.GRETL_CODEX_BIN \notin {<<>>, <<"">>} THEN h.env.GRETL_CODEX_BIN
         ELSE IF default_codex_bin \in h.exec THEN <<default_codex_bin>>
         ELSE IF "codex" \in h.path THEN <<"/usr/bin/codex">>
         ELSE <<>>
    ELSE IF pr = "GRETL_LLM_GEMINI"
    THEN IF h.env.GRETL_GEMINI_BIN \notin {<<>>, <<"">>} THEN h.env.GRETL_GEMINI_BIN
         ELSE IF default_gemini_bin \in h.exec THEN <<default_gemini_bin>>
         ELSE IF "gemini" \in h.path THEN <<"/usr/bin/gemini">>
         ELSE <<>>
    ELSE <<>>

\* the program a call ran: the first word of its argument vector, the
\* fourth when timeout(1) wraps it
Program(argv) == IF argv[1] = "/usr/bin/timeout" THEN argv[4] ELSE argv[1]

\* the error text names the variable v and not the other override variable
NamesOnly(res, v) ==
    /\ ~IsNull(res.errmsg)
    /\ \A x \in {"GRETL_CODEX_BIN", "GRETL_GEMINI_BIN"} :
           (strstr(res.errmsg[1], x, 1) # 0) <=> (x = v)

\* C16: for every provider passed (none being replaced by the default
\* provider first) the executable is the non-empty override variable, else
\* the built-in path when it is executable, else what the search path has;
\* when nothing resolves the call fails with the executable-not-found
\* error, whose text names the override variable of the provider being
\* resolved, and starts no process
ResolvedInOrder ==
    (probe.pc = "returned" /\ ~NoPrompt) =>
        IF Precedence(Resolving, probe.w.host) # <<>>
        THEN probe.w.tmp =>
                 /\ probe.res.argv # <<>>
                 /\ Program(probe.res.argv) = Precedence(Resolving, probe.w.host)[1]
        ELSE /\ probe.res.err = "E_EXTERNAL"
             /\ probe.res.argv = <<>>
             /\ strstr(probe.res.errmsg[1], "Cannot find", 1) = 1
             /\ NamesOnly(probe.res, OverrideVar(Resolving))

\* the names of the three providers in the spellings the probe uses, and
\* the provider each stands for
KnownNames ==
    [n \in {"", "codex", "CODEX", "gemini", "Gemini", "none", "nOnE"} |->
        CASE n \in {"codex", "CODEX"} -> "GRETL_LLM_CODEX"
          [] n \in {"gemini", "Gemini"} -> "GRETL_LLM_GEMINI"
          [] OTHER -> "GRETL_LLM_NONE"]

\* what a message says after its quotation of the name it was given
AfterQuote(msg) == From(msg, strrchr(msg, "'") + 1)

\* C17: gretl_llm_provider_from_string maps codex, gemini and none in any
\* case, and an empty or NULL name as none, to their providers without an
\* error; any other name gives a configuration error that names the two
\* valid choices and leaves the provider none; and the name of each of the
\* three providers maps back to it
ProviderParsed ==
    (probe.pc = "parsed") =>
        /\ IF IsNull(probe.s) \/ probe.s[1] \in DOMAIN KnownNames
           THEN /\ probe.res.err = NoErr
                /\ IsNull(probe.res.errmsg)
                /\ probe.res.p = IF IsNull(probe.s) THEN "GRETL_LLM_NONE"
                                 ELSE KnownNames[probe.s[1]]
           ELSE /\ probe.res.err = "E_DATA"
                /\ probe.res.p = "GRETL_LLM_NONE"
                /\ ~IsNull(probe.res.errmsg)
                /\ strstr(AfterQuote(probe.res.errmsg[1]), "codex", 1) # 0
                /\ strstr(AfterQuote(probe.res.errmsg[1]), "gemini", 1) # 0
        /\ \A p \in Providers :
               probe.s = Some(gretl_llm_provider_name(p)) => probe.res.p = p

\* a name in mixed case was parsed, and so was one that is no provider's
ProviderParsedSeen ==
    /\ probe.pc = "parsed"
    /\ \/ probe.s = Some("Gemini") /\ probe.res.p = "GRETL_LLM_GEMINI"
       \/ probe.s = Some("codexx") /\ probe.res.err = "E_DATA"

\* the number the text of GRETL_LLM_TIMEOUT_SEC on the probe's host stands
\* for, by the table TimeoutTexts
TimeoutAsked ==
    (CHOOSE t \in TimeoutTexts : t[1] = probe.w.host.env.GRETL_LLM_TIMEOUT_SEC)[2]

\* the probe's call started its program under timeout(1)
Wrapped ==
    probe.pc = "returned" /\ probe.res.argv # <<>>
        /\ probe.res.argv[1] = "/usr/bin/timeout"

\* C18: whatever GRETL_LLM_TIMEOUT_SEC holds (nothing, an empty text, no
\* number, 0, a negative number, more than 3600, a number followed by
\* text), the limit given to timeout(1) is an integer of 1..3600: the
\* number of the variable when that is in 1..3600, and 300 otherwise
TimeoutClamped ==
    Wrapped =>
        \E n \in 1..3600 :
            /\ probe.res.argv[2] = "--signal=KILL"
            /\ probe.res.argv[3] = ToString(n) \o "s"
            /\ n = IF TimeoutAsked \in 1..3600 THEN TimeoutAsked ELSE 300

\* limits taken from the variable, also with text after the number, and the
\* default for a number that is too large
TimeoutClampedSeen ==
    /\ Wrapped
    /\ \/ probe.w.host.env.GRETL_LLM_TIMEOUT_SEC = Some("45s")
             /\ probe.res.argv[3] = "45s"
       \/ probe.w.host.env.GRETL_LLM_TIMEOUT_SEC = Some("3601")
             /\ probe.res.argv[3] = "300s"

\* the argument vector of the program itself, without timeout(1)'s part
BaseArgv ==
    IF Wrapped THEN SubSeq(probe.res.argv, 4, Len(probe.res.argv)) ELSE probe.res.argv

\* the words between the program and the prompt, which is the last word
Options == {BaseArgv[i] : i \in 2..(Len(BaseArgv) - 1)}

\* the option opt is followed by the value val
HasOption(opt, val) ==
    \E i \in 2..(Len(BaseArgv) - 2) : BaseArgv[i] = opt /\ BaseArgv[i + 1] = val

\* one of the two unsafe-mode variables holds a text other than "" and "0"
OptedIn ==
    \E v \in {probe.w.host.env.GRETL_LLM_UNSAFE, probe.w.host.env.GRETL_CODEX_DANGEROUS} :
        v # <<>> /\ v[1] \notin {"", "0"}

\* the probe's call started codex
RanCodex ==
    probe.pc = "returned" /\ probe.res.argv # <<>> /\ Resolving = "GRETL_LLM_CODEX"

\* C19: codex is started with the read-only sandbox and approval policy
\* never, unless an unsafe-mode variable holds a text other than "" and
\* "0"; the option that bypasses approvals and sandbox is among the
\* arguments in that case only, and then without the options of the safe
\* profile
SafeUnlessOptedIn ==
    RanCodex =>
        IF OptedIn
        THEN /\ "--dangerously-bypass-approvals-and-sandbox" \in Options
             /\ Options \cap {"-s", "read-only", "-a"} = {}
        ELSE /\ HasOption("-s", "read-only")
             /\ HasOption("-a", "never")
             /\ "--dangerously-bypass-approvals-and-sandbox" \notin Options

\* codex ran in the safe profile with GRETL_LLM_UNSAFE=0, and in the other
\* with GRETL_CODEX_DANGEROUS=yes
SafeUnlessOptedInSeen ==
    /\ RanCodex
    /\ \/ /\ probe.w.host.env.GRETL_LLM_UNSAFE = Some("0")
          /\ probe.w.host.env.GRETL_CODEX_DANGEROUS = Some("")
          /\ HasOption("-s", "read-only")
       \/ /\ probe.w.host.env.GRETL_LLM_UNSAFE = NULL
          /\ probe.w.host.env.GRETL_CODEX_DANGEROUS = Some("yes")
          /\ "--dangerously-bypass-approvals-and-sandbox" \in Options

\* the probe's call started codex and the child exited with 0
CodexSucceeded == RanCodex /\ probe.w.spawn /\ probe.w.exit = 0

\* the message of the probe's result begins with the text t
Says(t) ==
    ~IsNull(probe.res.errmsg) /\ SubSeq(probe.res.errmsg[1], 1, Len(t)) = t

\* C20: after codex exited with 0 its output file is classified in this
\* order: unreadable or missing is the I/O error; larger than 2 MiB is the
\* reply-too-large error; empty is the empty-reply error; otherwise its
\* content is the reply.  So a reply returned with success is not empty and
\* has at most 2 MiB, and a file of exactly 2 MiB is accepted
ReplyFileClassified ==
    CodexSucceeded =>
        /\ IF probe.w.file = <<>>
           THEN /\ probe.res.err = "E_EXTERNAL"
                /\ Says("Failed to read LLM output file")
                /\ probe.res.reply = <<>>
           ELSE IF Len(probe.w.file[1]) > 2 * 1024 * 1024
           THEN /\ probe.res.err = "E_TOOLONG"
                /\ Says("LLM reply too long")
                /\ probe.res.reply = <<>>
           ELSE IF Len(probe.w.file[1]) = 0
           THEN /\ probe.res.err = "E_EXTERNAL"
                /\ Says("codex returned no reply")
           ELSE /\ probe.res.err = NoErr
                /\ probe.res.reply = probe.w.file
        /\ probe.res.err = NoErr =>
               /\ probe.res.reply # <<>>
               /\ Len(probe.res.reply[1]) \in 1..(2 * 1024 * 1024)

\* a file of exactly 2 MiB came back as the reply
ReplyFileClassifiedSeen ==
    /\ CodexSucceeded
    /\ probe.res.err = NoErr
    /\ Len(probe.res.reply[1]) = 2 * 1024 * 1024

-----------------------------------------------------------------------------
(* The gemini CLI on its own: runs that exit with 0 and differ in what the
   child wrote *)

\* what gemini may print: o[1] is the text on stdout, o[2] the response an
\* object between its first { and its last } carries as a string (NULL:
\* there is no such object or no such field).  The last text carries a
\* response of 2 MiB and one character
GeminiOutputs ==
    {<<"", NULL>>,
     <<"Loaded cached credentials.", NULL>>,
     <<"{", NULL>>,
     <<"}", NULL>>,
     <<"} done, then {", NULL>>,
     <<"{}", NULL>>,
     <<"{\"stats\": {}}", NULL>>,
     <<"{\"response\": 5}", NULL>>,
     <<"{\"response\": {\"text\": 1}}", NULL>>,
     <<"{\"response\": \"ok\"}", Some("ok")>>,
     <<"{\"response\":\"\"}", Some("")>>,
     <<"{\n  \"response\": \"a\\nb\",\n  \"stats\": {}\n}", Some("a\nb")>>,
     <<"Loaded cached credentials.\n{\"response\": \"ok\", \"stats\": {}}\nbye", Some("ok")>>,
     <<"{\"response\": \"{x}\"} trailing } brace", Some("{x}")>>,
     <<"{\"response\": \"" \o Doubled("x", 21) \o "y\"}", Some(Doubled("x", 21) \o "y")>>}

\* the calls: every output with every text on stderr, the large one once
GeminiCalls ==
    {[fn |-> fn, provider |-> "GRETL_LLM_GEMINI", prompt |-> Some("Why did ols fail?"),
      w |-> [WorldOn(HostPath) EXCEPT !.stdout = o[1], !.stderr = e]] :
        fn \in {"gretl_llm_complete", "gretl_llm_complete_with_error"},
        o \in {x \in GeminiOutputs : Len(x[1]) < 100},
        e \in {"", "Warning: slow network",
               "Error: An unexpected critical error occurred: boom"}}
    \cup
    {[fn |-> "gretl_llm_complete_with_error", provider |-> "GRETL_LLM_GEMINI",
      prompt |-> Some("Why did ols fail?"),
      w |-> [WorldOn(HostPath) EXCEPT !.stdout = o[1]]] :
        o \in {x \in GeminiOutputs : Len(x[1]) >= 100}}

InitGemini ==
    /\ InitSched
    /\ \E c \in GeminiCalls :
          probe = [pc |-> "call", fn |-> c.fn, provider |-> c.provider,
                   prompt |-> c.prompt, w |-> c.w]

SpecGemini == InitGemini /\ [][llm_complete \/ llm_complete_with_error]_vars

\* the response the table GeminiOutputs gives for the stdout of the probe
ResponseWritten == (CHOOSE o \in GeminiOutputs : o[1] = probe.w.stdout)[2]

\* the parse error of gemini: E_EXTERNAL, no reply, and one of the texts
\* for an output without a response
IsParseError(res) ==
    /\ res.err = "E_EXTERNAL"
    /\ res.reply = <<>>
    /\ res.errmsg # <<>>
    /\ \E t \in {"Failed to parse gemini response", "gemini returned no JSON",
                 "gemini returned no reply"} : SubSeq(res.errmsg[1], 1, Len(t)) = t

\* C21: after gemini exited with 0 the reply is taken from the span between
\* the first { and the last } of stdout; the call fails with the parse
\* error when there is no such span or no response string in it, with the
\* provider-failed error when stderr holds the crash signature, whatever
\* stdout holds, and with the reply-too-large error when the decoded
\* response has more than 2 MiB
GeminiExtracted ==
    (probe.pc = "returned") =>
        IF strstr(probe.w.stderr, "An unexpected critical error occurred", 1) # 0
        THEN /\ probe.res.err = "E_EXTERNAL"
             /\ probe.res.reply = <<>>
             /\ probe.res.errmsg = Some("gemini CLI error:\n" \o probe.w.stderr)
        ELSE IF ResponseWritten = <<>> THEN IsParseError(probe.res)
        ELSE IF Len(ResponseWritten[1]) > 2 * 1024 * 1024
        THEN /\ probe.res.err = "E_TOOLONG"
             /\ probe.res.reply = <<>>
        ELSE /\ probe.res.err = NoErr
             /\ probe.res.reply = ResponseWritten

\* a response between a banner and a trailer was returned, and so was the
\* error for a response above the limit
GeminiExtractedSeen ==
    /\ probe.pc = "returned"
    /\ \/ /\ probe.w.stdout = "Loaded cached credentials.\n{\"response\": \"ok\", \"stats\": {}}\nbye"
          /\ probe.res.reply = Some("ok")
       \/ /\ Len(probe.w.stdout) > 2 * 1024 * 1024
          /\ probe.res.err = "E_TOOLONG"


-----------------------------------------------------------------------------
(* The decoder on arrays of any entries: parse_llm_json_reply, then
   execute_tool_calls, on texts drawn at the start *)

\* the entries a provider may write in tool_calls, each with the name
\* string it carries (NULL when it carries none)
EntryTexts ==
    << <<"{\"name\":\"get_last_error\"}", Some("get_last_error")>>,
       <<"{\"name\":\"get_script_full\",\"args\":{}}", Some("get_script_full")>>,
       <<"{\"args\":{}}", NULL>>,
       <<"{\"name\":7}", NULL>>,
       <<"5", NULL>>,
       <<"\"get_dataset_summary\"", NULL>> >>

\* the longest array written
MaxEntries == 3

\* the arrays: the entries by their index in EntryTexts
EntryLists ==
    UNION {[1..n -> 1..Len(EntryTexts)] : n \in 0..MaxEntries}

RECURSIVE EntryList(_, _)
\* the text of the entries i.. of the array es, separated by commas
EntryList(es, i) ==
    IF i > Len(es) THEN ""
    ELSE (IF i > 1 THEN ", " ELSE "") \o EntryTexts[es[i]][1] \o EntryList(es, i + 1)

\* how the reply carries tool_calls: as an array, not at all, as a number,
\* as a string, or as an array whose closing bracket is missing
Shapes == {"array", "absent", "number", "string", "open"}

\* the reply with the entries es in the shape sh
ShapedReply(sh, es) ==
    CASE sh = "array"  -> "{\"tool_calls\":[" \o EntryList(es, 1) \o "]}"
      [] sh = "absent" -> "{\"note\":\"" \o "no tools" \o "\"}"
      [] sh = "number" -> "{\"tool_calls\":3}"
      [] sh = "string" -> "{\"tool_calls\":\"get_last_error\"}"
      [] sh = "open"   -> "{\"tool_calls\":[" \o EntryList(es, 1) \o "}"

InitDecode ==
    /\ InitSched
    /\ \E sh \in Shapes, es \in EntryLists :
          /\ sh \notin {"array", "open"} => es = <<>>
          /\ probe = [pc    |-> "text",
                      shape |-> sh,
                      es    |-> es,
                      json  |-> ShapedReply(sh, es),
                      snap  |-> take_snapshot(AppWork),
                      r     |-> [assistant_text |-> NULL, proposed_insert |-> NULL,
                                 tool_calls |-> <<>>],
                      out   |-> NULL]

SpecDecode == InitDecode /\ [][NextTools]_vars

RECURSIVE NamedEntries(_, _)
\* the names of the entries i.. of es that carry a name string, in order
NamedEntries(es, i) ==
    IF i > Len(es) THEN <<>>
    ELSE (IF IsNull(EntryTexts[es[i]][2]) THEN <<>> ELSE <<EntryTexts[es[i]][2][1]>>)
         \o NamedEntries(es, i + 1)

\* the names of the tool calls of the reply r, in order
CallNamesOf(r) == [i \in 1..Len(r.tool_calls) |-> r.tool_calls[i].name]

\* the entries of es are all objects
ObjectsOnly(es) == \A i \in 1..Len(es) : SubSeq(EntryTexts[es[i]][1], 1, 1) = "{"

\* C22: decoding gives a reply for every text; without a terminated
\* tool_calls array the reply has no tool calls; otherwise its tool calls
\* are the entries of the array that are objects carrying a name string, in
\* array order, whatever the other entries are; a reply without any of the
\* three fields has no text, no script and no tool calls
CallsAreNamedEntries ==
    (probe.pc # "text") =>
        /\ probe.shape # "array" => probe.r.tool_calls = <<>>
        /\ probe.shape = "array" => CallNamesOf(probe.r) = NamedEntries(probe.es, 1)
        /\ probe.shape = "absent" =>
              probe.r = [assistant_text |-> NULL, proposed_insert |-> NULL,
                         tool_calls |-> <<>>]

\* the same for arrays whose entries are all objects
CallsAreNamedObjects ==
    (probe.pc # "text" /\ ObjectsOnly(probe.es)) =>
        /\ probe.shape # "array" => probe.r.tool_calls = <<>>
        /\ probe.shape = "array" => CallNamesOf(probe.r) = NamedEntries(probe.es, 1)

\* the calls kept are those before the first entry that is no object
RECURSIVE NamedBeforeStop(_, _)
NamedBeforeStop(es, i) ==
    IF i > Len(es) \/ SubSeq(EntryTexts[es[i]][1], 1, 1) # "{" THEN <<>>
    ELSE (IF IsNull(EntryTexts[es[i]][2]) THEN <<>> ELSE <<EntryTexts[es[i]][2][1]>>)
         \o NamedBeforeStop(es, i + 1)

CallsUntilNonObject ==
    (probe.pc # "text" /\ probe.shape = "array") =>
        CallNamesOf(probe.r) = NamedBeforeStop(probe.es, 1)


-----------------------------------------------------------------------------
(* The reader's functions on texts drawn at the start: a reply decoded and
   rendered as job_thread does, json_match_closing, json_parse_string *)

\* what a reply may carry as assistant_text and as proposed_insert: the
\* JSON value written, and the text it stands for (NULL: field absent)
FieldValues ==
    { <<NULL, NULL>>,
      <<Some("\"\""), Some("")>>,
      <<Some("\"hi\""), Some("hi")>>,
      <<Some("\"ols y 0 x\\n\""), Some("ols y 0 x\n")>>,
      <<Some("\"Try this:\\nols y 0 x --robust\""), Some("Try this:\nols y 0 x --robust")>> }

\* the field name with the value v, when there is one
FieldText(name, v) == IF IsNull(v) THEN <<>> ELSE <<"\"" \o name \o "\":" \o v[1]>>

RECURSIVE Joined(_, _)
\* the texts i.. of fs, separated by commas
Joined(fs, i) ==
    IF i > Len(fs) THEN ""
    ELSE (IF i > 1 THEN "," ELSE "") \o fs[i] \o Joined(fs, i + 1)

\* the object with the fields a (assistant_text), p (proposed_insert) and t
\* (tool_calls)
ReplyObject(a, p, t) ==
    "{" \o Joined(FieldText("assistant_text", a) \o FieldText("proposed_insert", p)
                  \o FieldText("tool_calls", t), 1) \o "}"

\* the raw replies rendered: objects, and prose that is no object
RenderInputs ==
    {[raw |-> ReplyObject(a[1], p[1], t), a |-> a[2], p |-> p[2]] :
        a \in FieldValues, p \in FieldValues, t \in {NULL, Some("[]")}}
    \cup {[raw |-> "I cannot run scripts, but here is a hint.", a |-> NULL, p |-> NULL]}

\* the characters of the texts written for json_match_closing and for
\* json_parse_string, and the length of the longest text
MatchChars == {"{", "}", "\"", "\\", "a"}

ParseChars == {"\"", "\\", "n", " "}

MaxText == 5

RECURSIVE TextsOver(_, _)
\* the texts of up to n characters of the set cs
TextsOver(cs, n) ==
    IF n = 0 THEN {""}
    ELSE TextsOver(cs, n - 1) \cup {t \o c : t \in TextsOver(cs, n - 1), c \in cs}

\* texts for json_match_closing with the position of the closing delimiter
\* written beside them (0: none): text, position read from, opening and
\* closing delimiter, result
MatchTable ==
    { <<"{\"a\":\"x}y\",\"b\":{}}", 1, "{", "}", 18>>,
      <<"{}", 1, "{", "}", 2>>,
      <<"{}{}", 1, "{", "}", 2>>,
      <<"{}{}", 3, "{", "}", 4>>,
      <<"{{}", 1, "{", "}", 0>>,
      <<"", 1, "{", "}", 0>>,
      <<"x{}", 1, "{", "}", 0>>,
      <<"x{}", 2, "{", "}", 3>>,
      <<"{\"a\":\"\\\"}\"}", 1, "{", "}", 11>>,
      <<"{\"a\":\"\\\\\"}", 1, "{", "}", 10>>,
      <<"{\"a\":\"}", 1, "{", "}", 0>>,
      <<"[1,[2,3],\"]\"]", 1, "[", "]", 13>>,
      <<"[1,[2,3],\"]\"]", 4, "[", "]", 8>>,
      <<"[}]", 1, "[", "]", 3>>,
      <<"{[}]}", 1, "{", "}", 3>>,
      <<"[{\"name\":\"a\"},{\"name\":\"b\"}]", 2, "{", "}", 13>>,
      <<"{\"a\":1}", 1, "[", "]", 0>>,
      <<"{\"a\":1}", 0, "{", "}", 0>> }

\* texts for json_parse_string: text, position read from, whether it
\* succeeds, the position after the closing quote, the string read
ParseTable ==
    { <<"\"hi\"", 1, TRUE, 5, "hi">>,
      <<"  \t\n\"hi\" ,", 1, TRUE, 9, "hi">>,
      <<"{\"a\": \"b\"}", 6, TRUE, 10, "b">>,
      <<"hi\"", 1, FALSE, 0, "">>,
      <<"\"hi", 1, FALSE, 0, "">>,
      <<"", 1, FALSE, 0, "">>,
      <<"7", 1, FALSE, 0, "">>,
      <<"\"a\\\"b\"", 1, TRUE, 7, "a\"b">>,
      <<"\"a\\\\\"b\"", 1, TRUE, 6, "a\\">>,
      <<"\"a\\\\\\\"", 1, FALSE, 0, "">>,
      <<"\"\\\" \\\\ \\/ \\f \\n \\r \\t\"", 1, TRUE, 23, "\" \\ / \f \n \r \t">>,
      <<"\"\\u0041\\u007a\\u000A\"", 1, TRUE, 21, "Az\n">>,
      <<"\"\\u20AC\\uD83D\\uDE00\"", 1, TRUE, 21, "???">>,
      <<"\"\\u12\"", 1, TRUE, 7, "?12">>,
      <<"\"\\u\"", 1, TRUE, 5, "?">>,
      <<"\"\\u004\"", 1, TRUE, 8, "?004">>,
      <<"\"\\x41\\q\"", 1, TRUE, 9, "x41q">>,
      <<"\"\"", 1, TRUE, 3, "">>,
      <<"\"a\nb\"", 1, TRUE, 6, "a\nb">> }

InitReader ==
    /\ InitSched
    /\ \/ \E i \in RenderInputs :
             probe = [pc |-> "raw", fn |-> "render", raw |-> i.raw, a |-> i.a, p |-> i.p,
                      out |-> NULL]
       \/ \E t \in TextsOver(MatchChars, MaxText) :
             probe = [pc |-> "text", fn |-> "match", s |-> t, p |-> 1,
                      open |-> "{", close |-> "}", ret |-> 0]
       \/ \E m \in MatchTable :
             probe = [pc |-> "text", fn |-> "match", s |-> m[1], p |-> m[2],
                      open |-> m[3], close |-> m[4], ret |-> 0]
       \/ \E t \in TextsOver(ParseChars, MaxText), prev \in {NULL, Some("before")} :
             probe = [pc |-> "text", fn |-> "parse", s |-> t, p0 |-> 1, prev |-> prev,
                      ok |-> FALSE, p |-> 1, out |-> prev]
       \/ \E m \in ParseTable, prev \in {NULL, Some("before")} :
             probe = [pc |-> "text", fn |-> "parse", s |-> m[1], p0 |-> m[2], prev |-> prev,
                      ok |-> FALSE, p |-> m[2], out |-> prev]

\* r = parse_llm_json_reply(reply); display = format_llm_reply_for_display(r,
\* reply), as in job_thread
reader_render ==
    /\ probe.pc = "raw"
    /\ probe' = [probe EXCEPT
                    !.pc = "rendered",
                    !.out = Some(format_llm_reply_for_display(
                                     parse_llm_json_reply(probe.raw), Some(probe.raw)))]
    /\ UNCHANGED sched

\* json_match_closing(p, open, close)
reader_match ==
    /\ probe.pc = "text" /\ probe.fn = "match"
    /\ probe' = [probe EXCEPT
                    !.pc = "matched",
                    !.ret = json_match_closing(probe.s, probe.p, probe.open, probe.close)]
    /\ UNCHANGED sched

\* the variables p and out after json_parse_string(&p, &out) returned r
reader_parsed(r) ==
    [probe EXCEPT !.pc = "parsed", !.ok = r.ok,
                  !.p = IF r.ok THEN r.p ELSE probe.p,
                  !.out = extract_string_result(r, probe.out)]

\* ok = json_parse_string(&p, &out)
reader_parse ==
    /\ probe.pc = "text" /\ probe.fn = "parse"
    /\ probe' = reader_parsed(json_parse_string(probe.s, probe.p))
    /\ UNCHANGED sched

NextReader == reader_render \/ reader_match \/ reader_parse

SpecReader == InitReader /\ [][NextReader]_vars

\* the proposed-script block for the script p
ScriptBlock(p) ==
    "[Proposed script]\n" \o p \o (IF LastChar(p) = "\n" THEN "" ELSE "\n")

\* the text displayed for a reply with the assistant text a and the script
\* p, both non-NULL
Display(a, p) ==
    IF p = "" THEN a
    ELSE IF a = "" THEN ScriptBlock(p)
    ELSE a \o "\n\n" \o ScriptBlock(p)

\* a field that is absent reads as the empty text
TextOf(v) == IF IsNull(v) THEN "" ELSE v[1]

\* C23: the display text is the assistant text followed, when there is a
\* non-empty proposed script, by the block labelled [Proposed script] that
\* holds the script and ends with a newline; when both are absent or empty
\* it is the raw text unchanged; for {"assistant_text":"hi","tool_calls":[]}
\* it is "hi"
DisplayRendered ==
    (probe.pc = "rendered") =>
        /\ probe.out = Some(IF TextOf(probe.a) = "" /\ TextOf(probe.p) = "" THEN probe.raw
                            ELSE Display(TextOf(probe.a), TextOf(probe.p)))
        /\ TextOf(probe.p) # "" => LastChar(probe.out[1]) = "\n"
        /\ probe.raw = "{\"assistant_text\":\"hi\",\"tool_calls\":[]}" => probe.out = Some("hi")

DisplayRenderedSeen ==
    /\ probe.pc = "rendered"
    /\ \/ probe.raw = "{\"assistant_text\":\"hi\",\"tool_calls\":[]}" /\ probe.out = Some("hi")
       \/ /\ probe.a = Some("hi") /\ probe.p = Some("Try this:\nols y 0 x --robust")
          /\ probe.out = Some("hi\n\n[Proposed script]\nTry this:\nols y 0 x --robust\n")
       \/ probe.a = Some("") /\ probe.p = NULL /\ probe.out = Some(probe.raw)


RECURSIVE BackslashesBefore(_, _, _)
\* the number of backslashes in a row just before the position b, after
\* the position a
BackslashesBefore(s, b, a) ==
    IF b - 1 > a /\ At(s, b - 1) = "\\" THEN 1 + BackslashesBefore(s, b - 1, a) ELSE 0

\* the least member of a non-empty set of positions, 0 for the empty set
Least(S) == IF S = {} THEN 0 ELSE CHOOSE b \in S : \A c \in S : b <= c

\* the quote that ends the string opened by the quote at a: the first one
\* not preceded by an odd number of backslashes; 0 when there is none
StringEnd(s, a) ==
    Least({b \in (a + 1)..Len(s) :
              At(s, b) = "\"" /\ BackslashesBefore(s, b, a) % 2 = 0})

RECURSIVE Quoted(_, _)
\* the positions from i on that belong to quoted strings, quotes included,
\* the text being read from i on; q is the first quote, e its end
QuotedFrom(s, q, e) ==
    IF q = 0 THEN {}
    ELSE IF e = 0 THEN q..Len(s)
    ELSE (q..e) \cup Quoted(s, e + 1)

Quoted(s, i) == QuotedFrom(s, IndexIn(s, "\"", i), StringEnd(s, IndexIn(s, "\"", i)))

\* the nesting depth after the position i of the text read from p: the
\* opening less the closing delimiters met outside quoted strings
Depth(s, p, i, open, close) ==
    Cardinality({j \in p..i : At(s, j) = open /\ j \notin Quoted(s, p)})
    - Cardinality({j \in p..i : At(s, j) = close /\ j \notin Quoted(s, p)})

\* the first position at which the depth is back at zero, 0 when there is
\* none or the text does not start with the opening delimiter
Closing(s, p, open, close) ==
    IF p = 0 \/ At(s, p) # open THEN 0
    ELSE Least({i \in p..Len(s) : Depth(s, p, i, open, close) = 0})

\* C27: json_match_closing returns the first position at which the depth
\* of the delimiter pair, counted outside quoted strings, is back at zero,
\* and not-found (0) when the text does not start with the opening
\* delimiter or the depth never gets back to zero; for the texts of
\* MatchTable, {"a":"x}y","b":{}} among them, it returns the position
\* written there
MatchIsFirstBalance ==
    (probe.pc = "matched") =>
        /\ probe.ret = Closing(probe.s, probe.p, probe.open, probe.close)
        /\ \A m \in MatchTable :
              (<<probe.s, probe.p, probe.open, probe.close>> = <<m[1], m[2], m[3], m[4]>>)
                  => probe.ret = m[5]
        /\ probe.s = "{\"a\":\"x}y\",\"b\":{}}" => probe.ret = Len(probe.s)

MatchIsFirstBalanceSeen ==
    /\ probe.pc = "matched"
    /\ \/ probe.s = "{\"a\":\"x}y\",\"b\":{}}" /\ probe.ret = 18
       \/ probe.s = "{\"}\"}" /\ probe.ret = 5
       \/ probe.s = "{\"\\\"}" /\ probe.ret = 0


\* the first position from p on that holds no whitespace
AfterBlanks(s, p) == Least({i \in p..(Len(s) + 1) : ~IsSpace(At(s, i))})

\* the character an escape stands for, for the escapes other than \u
EscapeOf(c) ==
    CASE c = "n" -> "\n"
      [] c = "t" -> "\t"
      [] c = "r" -> "\r"
      [] c = "f" -> "\f"
      [] OTHER -> c

RECURSIVE Unescaped(_, _, _)
\* the text from i up to e with each backslash and the character after it
\* replaced by the character they stand for
Unescaped(s, i, e) ==
    IF i >= e THEN ""
    ELSE IF At(s, i) = "\\" THEN EscapeOf(At(s, i + 1)) \o Unescaped(s, i + 2, e)
    ELSE At(s, i) \o Unescaped(s, i + 1, e)

\* the text s holds no unicode escape
NoUnicode(s) == strstr(s, "\\u", 1) = 0

\* what json_parse_string is to do on the text s read from p0, q being the
\* position after the whitespace and e the end of the string opened at q
ParseExpected(s, q, e) ==
    IF At(s, q) = "\"" /\ e # 0
    THEN /\ probe.ok
         /\ probe.p = e + 1
         /\ NoUnicode(s) => probe.out = Some(Unescaped(s, q + 1, e))
    ELSE /\ ~probe.ok
         /\ probe.p = probe.p0
         /\ probe.out = probe.prev

\* C28: json_parse_string succeeds exactly when the text, after leading
\* whitespace, starts with a quote and holds a later quote not preceded by
\* an odd number of backslashes; it then leaves the read position after
\* that quote and returns the text with the escapes decoded, \u00XX as the
\* one byte and any other unicode escape as '?'; otherwise it fails and
\* leaves the read position and the output as they were
StringParsed ==
    (probe.pc = "parsed") =>
        /\ ParseExpected(probe.s, AfterBlanks(probe.s, probe.p0),
                         StringEnd(probe.s, AfterBlanks(probe.s, probe.p0)))
        /\ \A m \in ParseTable :
              (<<probe.s, probe.p0>> = <<m[1], m[2]>>) =>
                  /\ probe.ok = m[3]
                  /\ m[3] => probe.p = m[4] /\ probe.out = Some(m[5])

StringParsedSeen ==
    /\ probe.pc = "parsed"
    /\ \/ probe.s = "\"\\u0041\\u007a\\u000A\"" /\ probe.out = Some("Az\n")
       \/ probe.s = "\"\\\\\"n" /\ probe.ok /\ probe.p = 5 /\ probe.out = Some("\\")
       \/ probe.s = "\"n\\\"" /\ ~probe.ok /\ probe.p = 1 /\ probe.out = Some("before")


-----------------------------------------------------------------------------
(* The request scheduler with its threads scheduled: the thread that
   g_thread_new started runs job_thread while every call of the provider
   returns, and the main loop dispatches the idle source that g_idle_add
   posted *)

\* the jobs ask_clicked creates
FirstRound ==
    {NewJob(a, sid, inp) :
        a \in Addr, sid \in 1..MaxSessions, inp \in {i \in AskInputs : i.user_prompt # ""}}

\* one round of job_thread for each job of J in each world: the job, the
\* world, the job after the round
RoundsFrom(J) ==
    UNION {{<<job, w, job_thread_iter(job, w)>> : w \in Worlds(job.provider)} : job \in J}

FirstRounds == RoundsFrom(FirstRound)

\* the rounds of job_thread, the second ones after those first ones that
\* did not post the job
WorkerRounds ==
    FirstRounds \cup RoundsFrom({t[3] : t \in {u \in FirstRounds : u[3].pc = "loop"}})

\* job_thread(j, Worlds(jobs[j].provider)) with its rounds read from
\* WorkerRounds
job_thread_round(j) ==
    /\ jobs[j].pc = "loop"
    /\ last_op' = "job_thread"
    /\ \E t \in WorkerRounds : t[1] = jobs[j] /\ jobs' = [jobs EXCEPT ![j] = t[3]]
    /\ UNCHANGED <<assts, global_asst, nsessions, njobs, leaked, probe>>

SpecLive ==
    /\ Init
    /\ [][Next]_vars
    /\ \A j \in 1..MaxJobs :
          /\ WF_vars(j \in DOMAIN jobs /\ job_thread_round(j))
          /\ WF_vars(j \in DOMAIN jobs /\ job_complete_idle(j))

\* the session that created the job is the live one
SessionAlive(job) == global_asst # 0 /\ assts[global_asst].sid = job.sid

\* the steps of the life of the job numbered j
JobStep(j) ==
    /\ (last_op' = "ask") => DOMAIN jobs' = DOMAIN jobs \cup {njobs + 1}
    /\ (j \in DOMAIN jobs' \ DOMAIN jobs) =>
          /\ last_op' = "ask" /\ j = njobs + 1 /\ njobs' = j
          /\ jobs'[j].pc = "loop" /\ jobs'[j].calls = <<>>
    /\ (j \in DOMAIN jobs /\ j \in DOMAIN jobs' /\ jobs'[j] # jobs[j]) =>
          /\ last_op' = "job_thread"
          /\ jobs[j].pc = "loop"
    /\ (j \in DOMAIN jobs \ DOMAIN jobs') =>
          /\ jobs[j].pc = "posted"
          /\ last_op' \in {"complete", "complete_stale"}
          /\ SessionAlive(jobs[j]) =>
                /\ ~assts'[global_asst].busy
                /\ assts'[global_asst].ask_button
    /\ (j \notin DOMAIN jobs /\ j <= njobs) => j \notin DOMAIN jobs'

\* C24: an accepted ask creates one job; the job is run by its worker only,
\* until the worker posts it, once, whether the provider succeeds, fails in
\* the first or the second round, or tools are off; a posted job is not
\* run again; its completion callback runs once, eventually, and removes
\* the job, and, the session being alive, clears busy and enables the ask
\* button; a job that is gone never comes back
AskCompletes ==
    /\ [][\A j \in 1..MaxJobs : JobStep(j)]_vars
    /\ \A j \in 1..MaxJobs : (j \in DOMAIN jobs) ~> (j \notin DOMAIN jobs)

AskCompletesSeen ==
    /\ last_op = "complete"
    /\ njobs = 2
    /\ jobs = <<>>
    /\ global_asst # 0
    /\ ~assts[global_asst].busy /\ assts[global_asst].ask_button
    /\ ~IsNull(assts[global_asst].last_reply)


\* the handlers the interactive thread runs
MainThreadOps ==
    {"present", "show", "show_failed", "destroyed", "ask", "ask_rejected",
     "complete", "complete_stale"}

\* what a step does to the job numbered j
JobOwned(j) ==
    /\ (j \in DOMAIN jobs' \ DOMAIN jobs) =>
          /\ last_op' = "ask"
          /\ \E inp \in AskInputs : jobs'[j].snapshot = take_snapshot(inp.app)
          /\ jobs'[j].pc = "loop" /\ jobs'[j].calls = <<>> /\ jobs'[j].tool_runs = 0
    /\ (j \in DOMAIN jobs /\ j \in DOMAIN jobs') =>
          /\ jobs'[j].snapshot = jobs[j].snapshot
          /\ last_op' \in MainThreadOps => jobs'[j] = jobs[j]
          /\ jobs[j].pc = "posted" => jobs'[j] = jobs[j]
    /\ (j \in DOMAIN jobs') =>
          (jobs'[j].pc = "loop" => IsNull(jobs'[j].reply) /\ IsNull(jobs'[j].insert_text))
    /\ (j \in DOMAIN jobs \ DOMAIN jobs') =>
          jobs[j].pc = "posted" /\ last_op' \in {"complete", "complete_stale"}

CodexPath ==
    IF ~probe.w.spawn THEN "spawn failure"
    ELSE IF probe.w.exit \in {124, 137} THEN "timeout"
    ELSE IF probe.w.exit # 0 THEN "nonzero exit"
    ELSE IF IsNull(probe.w.file) THEN "read failure"
    ELSE IF Len(probe.w.file[1]) > GRETL_LLM_MAX_REPLY THEN "oversize"
    ELSE IF probe.w.file[1] = "" THEN "empty reply"
    ELSE "success"

\* the probe's call got as far as g_file_open_tmp, which made the file
MadeTempFile ==
    /\ probe.pc = "returned"
    /\ probe.res.tmp_made

\* C26: a call that made codex's temporary output file has removed it when
\* it returns, whichever way it returns, and has handed one argument
\* vector, naming that file, to g_spawn_sync; a call that made no file
\* leaves none, and a call for codex that could not make it starts no child
TempFileRemoved ==
    (probe.pc = "returned") =>
        /\ ~probe.res.tmp_left
        /\ MadeTempFile =>
              /\ Resolving = "GRETL_LLM_CODEX" /\ probe.w.tmp
              /\ probe.res.argv # <<>>
              /\ \E i \in 1..(Len(probe.res.argv) - 1) :
                    /\ probe.res.argv[i] = "--output-last-message"
                    /\ probe.res.argv[i + 1] = probe.w.tmpname
              /\ (CodexPath = "success") <=> (probe.res.err = NoErr)
        /\ RanCodex => MadeTempFile
        /\ (Resolving = "GRETL_LLM_CODEX" /\ ~probe.w.tmp) => probe.res.argv = <<>>

TempFileRemovedSeen ==
    /\ MadeTempFile
    /\ ~probe.res.tmp_left
    /\ CodexPath = "timeout"
    /\ probe.res.err = "E_EXTERNAL"


\* the text of a field that may be NULL
OrEmpty(v) == IF IsNull(v) THEN "" ELSE v[1]

\* the job whose callback the step runs, delivering to the live session
Delivered(j) == j \in DOMAIN jobs \ DOMAIN jobs' /\ last_op' = "complete"

\* the session at the address a has a script stored and the job has none
LeftoverCase(a, j) == NonEmpty(assts[a].last_insert) /\ ~NonEmpty(jobs[j].insert_text)

\* what a step does to the texts stored at the address a
StoredStep(a) ==
    /\ \A j \in 1..MaxJobs :
          (Delivered(j) /\ a = global_asst) =>
              /\ assts'[a].last_reply = Some(OrEmpty(jobs[j].reply))
              /\ assts'[a].last_insert = Some(OrEmpty(jobs[j].insert_text))
              /\ assts'[a].reply_view = OrEmpty(jobs[j].reply)
              /\ insert_clicked(assts'[a]) =
                    IF NonEmpty(jobs[j].insert_text) THEN jobs[j].insert_text
                    ELSE IF NonEmpty(jobs[j].reply) THEN jobs[j].reply
                    ELSE NULL
              /\ LeftoverCase(a, j) =>
                    /\ assts'[a].last_insert = Some("")
                    /\ insert_clicked(assts'[a]) # assts[a].last_insert
    /\ (assts[a].sid # 0 /\ assts'[a].sid = assts[a].sid /\ last_op' # "complete") =>
          /\ assts'[a].last_reply = assts[a].last_reply
          /\ assts'[a].last_insert = assts[a].last_insert

\* C29: the callback stores the reply and the insertion text of the job it
\* completes, the empty text for a job without one, whatever was stored
\* before; nothing else changes what a session has stored; so insert_clicked
\* takes the script of the latest job, or else its reply, never an earlier
\* script
StoredFromLatest == [][\A a \in Addr : StoredStep(a)]_vars

StoredFromLatestSeen ==
    /\ last_op = "complete"
    /\ njobs = 2 /\ jobs = <<>> /\ nsessions = 1 /\ leaked = {}
    /\ assts[global_asst].last_insert = Some("")
    /\ NonEmpty(assts[global_asst].last_reply)
    /\ insert_clicked(assts[global_asst]) = assts[global_asst].last_reply


-----------------------------------------------------------------------------
(* json_extract_string_field of src/lib/src/gretl_llm.c on objects drawn at
   the start *)

\* what a JSON string is written from: a letter, an escaped backslash, an
\* escaped quote, an escaped newline; each with the text it stands for
Tokens ==
    << <<"a", "a">>, <<"\\\\", "\\">>, <<"\\\"", "\"">>, <<"\\n", "\n">> >>

\* the longest value written, in tokens
MaxTokens == 3

\* the values: the tokens by their index in Tokens
TokenLists == UNION {[1..n -> 1..Len(Tokens)] : n \in 0..MaxTokens}

RECURSIVE Written(_, _, _)
\* the tokens i.. of ts as they are written (k = 1) and as what they stand
\* for (k = 2)
Written(ts, i, k) ==
    IF i > Len(ts) THEN "" ELSE Tokens[ts[i]][k] \o Written(ts, i + 1, k)

\* the objects gemini may print around the response v: alone, followed by
\* other fields, and after a field whose value is the text response
Frames == {"alone", "followed", "after value"}

FramedObject(fr, v) ==
    CASE fr = "alone" -> "{\"response\": \"" \o v \o "\"}"
      [] fr = "followed" ->
            "{\"response\": \"" \o v \o "\", \"stats\": {\"model\": \"m\"}}"
      [] fr = "after value" ->
            "{\"kind\": \"response\", \"id\": \"r1\", \"response\": \"" \o v \o "\"}"

InitField ==
    /\ InitSched
    /\ \E fr \in Frames, ts \in TokenLists :
          probe = [pc |-> "object", frame |-> fr, ts |-> ts,
                   json |-> FramedObject(fr, Written(ts, 1, 1)), out |-> NULL]

\* response = json_extract_string_field(json, "response"), as in
\* run_gemini_cli_buf
field_extract ==
    /\ probe.pc = "object"
    /\ probe' = [probe EXCEPT !.pc = "extracted",
                              !.out = llm_json_extract_string_field(probe.json, "response")]
    /\ UNCHANGED sched

SpecField == InitField /\ [][field_extract]_vars

\* C30: for an object whose response field is a well-formed JSON string the
\* extracted reply is the text that string stands for: the value ends at
\* the first quote that is not escaped, a quote after an escaped backslash
\* being such a quote, and the value is the one after the colon that
\* follows the field name
ResponseDecoded ==
    (probe.pc = "extracted") => probe.out = Some(Written(probe.ts, 1, 2))

\* the value ends with an escaped backslash
EndsEscapedBackslash(ts) == Len(ts) > 0 /\ ts[Len(ts)] = 2

\* the same for the objects whose first text "response" is the field name
\* and whose value does not end with an escaped backslash
ResponseDecodedPlain ==
    (probe.pc = "extracted" /\ probe.frame # "after value"
        /\ ~EndsEscapedBackslash(probe.ts)) =>
        probe.out = Some(Written(probe.ts, 1, 2))

====
